---- MODULE Spec2Model ----
(***************************************************************************)
(* Storage engine of the Decuma time-series database: Segment, memory      *)
(* manager (write-back cache), Register (recovery log), Series, Decuma.    *)
(*                                                                         *)
(* The engine is single threaded.  Every command runs to completion or     *)
(* until it raises; the server catches the exception and keeps serving,    *)
(* so the state a raising command leaves behind is a state of the program. *)
(* The operators below thread a "world" record w through the calls of one  *)
(* command: the heap of Segment objects, the memory manager's module       *)
(* state, the data directory, the register file, the pending exception.    *)
(***************************************************************************)
EXTENDS Integers, Sequences, FiniteSets, TLC

VARIABLES
    segs,                    \* heap of Segment objects, handle = index
    queue,                   \* memory_manager._queue
    read_set,                \* memory_manager._read_set
    write_set,               \* memory_manager._write_set
    last_access,             \* memory_manager._last_access
    counter,                 \* memory_manager.add_to_queue.counter
    files,                   \* data directory: id -> content of <id>.npz
    register,                \* decuma.index: the sequence of framed lines
    series,                  \* Decuma.series: path -> Series
    next_free_serial,        \* Decuma._next_free_serial
    max_segment_size,        \* config.max_segment_size
    max_segments_in_memory,  \* config.max_segments_in_memory
    up,                      \* a server process is running
    pc,                      \* position of the dispatch thread
    denied,                  \* the operating system refuses writes to the data directory
    write_failed,            \* history: some segment write has been refused
    nops,                    \* history: number of commands issued
    accesses,                \* history: the read_op calls of the last command
    splits,                  \* history: the Segment.split calls of the last command
    last,                    \* history: the last command, its arguments and outcome
    before,                  \* history: observations taken when the last command started
    trail                    \* history: the get commands of this process and their read_op calls

vars == <<segs, queue, read_set, write_set, last_access, counter, files, register,
          series, next_free_serial, max_segment_size, max_segments_in_memory,
          up, pc, denied, write_failed, nops, accesses, splits, last, before, trail>>

(***************************************************************************)
(* Bounds of the model.                                                    *)
(***************************************************************************)
MaxT == 4                \* SpecSeries: timestamps are 1..MaxT
MaxSeriesOps == 6        \* SpecSeries: commands per behaviour
MaxDbT == 2              \* Spec: timestamps are 1..MaxDbT
MaxOps == 6              \* Spec: commands per behaviour
MaxCacheT == 2           \* SpecCache: timestamps are 1..MaxCacheT
MaxCacheOps == 5         \* SpecCache: commands per behaviour
SegmentBytes == 16       \* the configured max_segment_size
MaxLiveOps == 4          \* SpecCacheLive: commands per behaviour
MaxAccessT == 5          \* SpecAccess: timestamps are 1..MaxAccessT
MaxAccessOps == 5        \* SpecAccess: commands per behaviour
CacheSegments == 2       \* the configured max_segments_in_memory
MaxDefragT == 2          \* SpecDefrag: timestamps are 1..MaxDefragT
MaxDefragOps == 6        \* SpecDefrag: commands per behaviour
RoomyBytes == 32         \* SpecRoomy: the configured max_segment_size, two records
MaxRoomyT == 3           \* SpecRoomy: timestamps are 1..MaxRoomyT
MaxRoomyOps == 5         \* SpecRoomy: commands per behaviour
MaxAdminT == 2           \* SpecAdmin: timestamps are 1..MaxAdminT
MaxAdminOps == 5         \* SpecAdmin: commands per behaviour
MaxArgT == 2             \* SpecArgs: timestamps are 1..MaxArgT
MaxArgOps == 4           \* SpecArgs: commands per behaviour
MaxTocT == 2             \* SpecToc: timestamps are 1..MaxTocT
MaxTocOps == 5           \* SpecToc: commands per behaviour
MaxCommitT == 3          \* SpecCommit: timestamps are 1..MaxCommitT
MaxCommitN == 3          \* SpecCommit: commit(n) is called with n in 0..MaxCommitN
MaxCommitOps == 5        \* SpecCommit: commands per behaviour

Times == 1 .. MaxT
DbTimes == 1 .. MaxDbT
CacheTimes == 1 .. MaxCacheT
AccessTimes == 1 .. MaxAccessT
RoomyTimes == 1 .. MaxRoomyT
DefragTimes == 1 .. MaxDefragT
AdminTimes == 1 .. MaxAdminT
ArgTimes == 1 .. MaxArgT
TocTimes == 1 .. MaxTocT
CommitTimes == 1 .. MaxCommitT
CommitSizes == 0 .. MaxCommitN
Paths == {"a", "b"}
Whens == {"after", "before", "exact"}
Conflicts == {"keep both", "replace", "skip"}
Fields == <<"v">>

(***************************************************************************)
(* Python values.                                                          *)
(***************************************************************************)
None == 0                \* a start / end that is None (timestamps are >= 1)
NoneT == <<None>>        \* Segment.t is None
NoneX == << <<>> >>      \* Segment.x is None
Ok == "ok"               \* no exception pending

Max(S) == CHOOSE m \in S : \A k \in S : m >= k

\* a[i0:i1] of a Python sequence (0-based, i1 exclusive)
Slice(a, i0, i1) == [k \in 1 .. (i1 - i0) |-> a[i0 + k]]

\* np.insert(a, i, v) (0-based position i)
np_insert_at_end(a, i, v) == Append(a, v)

np_insert(a, i, v) == Slice(a, 0, i) \o <<v>> \o Slice(a, i, Len(a))

\* np.searchsorted(a, v, side='left'): number of elements < v
searchsorted_after_equal(a, v) == Cardinality({k \in 1 .. Len(a) : a[k] <= v})

searchsorted_left(a, v) == Cardinality({k \in 1 .. Len(a) : a[k] < v})

\* np.searchsorted(a, v, side='right'): number of elements <= v
searchsorted_right(a, v) == Cardinality({k \in 1 .. Len(a) : a[k] <= v})

(***************************************************************************)
(* The data directory: files[id] is the content of <id>.npz.               *)
(***************************************************************************)
RemoveFile(fs, id) == [k \in (DOMAIN fs) \ {id} |-> fs[k]]

\* np.savez(filename, t=t, x=x): creates or overwrites the file
SaveFile(fs, id, t, x) ==
    [k \in (DOMAIN fs) \cup {id} |-> IF k = id THEN [t |-> t, x |-> x] ELSE fs[k]]

(***************************************************************************)
(* register.py: the lines appended to decuma.index.                        *)
(***************************************************************************)
SeriesLine(path, serial, fields) ==
    [marker |-> "A", path |-> path, serial |-> serial, fields |-> fields,
     id |-> None, start |-> None, end |-> None, size |-> 0]

SegmentLine(s) ==
    [marker |-> "B", path |-> "", serial |-> 0, fields |-> <<>>,
     id |-> s.id, start |-> s.start, end |-> s.end, size |-> s.size]

record_segment(w, h) == [w EXCEPT !.register = Append(@, SegmentLine(w.segs[h]))]

(***************************************************************************)
(* memory_manager.py                                                       *)
(***************************************************************************)
add_to_queue(w, h) ==
    LET c == w.counter + 1 IN
    [w EXCEPT !.counter = c,
              !.queue = Append(@, <<c, h>>),
              !.last_access = [k \in (DOMAIN @) \cup {h} |-> IF k = h THEN c ELSE @[k]],
              !.read_set = @ \cup {h}]

\* mem_to_disk that records the segment without writing its file
mem_to_disk_without_save(w, h) ==
    LET s == w.segs[h] IN
    IF s.disk_synced THEN w
    ELSE IF denied THEN [w EXCEPT !.err = "PermissionError"]
    ELSE [record_segment(w, h) EXCEPT !.segs[h].disk_synced = TRUE]

\* Segment.mem_to_disk
mem_to_disk(w, h) ==
    LET s == w.segs[h] IN
    IF s.disk_synced THEN w
    ELSE IF denied THEN [w EXCEPT !.err = "PermissionError"]
    ELSE LET w1 == [w EXCEPT !.files = IF s.size > 0 THEN SaveFile(@, s.id, s.t, s.x)
                                       ELSE RemoveFile(@, s.id)]
             w2 == record_segment(w1, h)
         IN [w2 EXCEPT !.segs[h].disk_synced = TRUE]

\* history: the queue entry e has released a segment; seg is the segment before
\* the release, w the state after it
Released(w, e, seg) ==
    [w EXCEPT !.log[Len(w.log)].evicted = Append(@, e),
              !.log[Len(w.log)].released = Append(@, [h |-> e[2], seg |-> seg,
                                                      after |-> w.segs[e[2]],
                                                      files |-> w.files])]

\* release that leaves the segment's entry in _last_access
release_leaves_last_access(w, e) ==
    LET h == e[2] IN
    Released([w EXCEPT !.read_set = @ \ {h},
                       !.segs[h].t = NoneT,
                       !.segs[h].x = NoneX,
                       !.segs[h].mem_synced = FALSE,
                       !.segs[h].disk_synced = TRUE], e, w.segs[h])

\* read_op, lines 59-68: release a segment from memory
release(w, e) ==
    LET h == e[2] IN
    Released([w EXCEPT !.read_set = @ \ {h},
                       !.last_access = [k \in (DOMAIN @) \ {h} |-> @[k]],
                       !.segs[h].t = NoneT,
                       !.segs[h].x = NoneX,
                       !.segs[h].mem_synced = FALSE,
                       !.segs[h].disk_synced = TRUE], e, w.segs[h])

\* the eviction loop with the release nested in the test of _write_set
RECURSIVE evict_dirty_only(_)
evict_dirty_only(w) ==
    IF w.queue = <<>> \/ ~(Cardinality(w.read_set) > max_segments_in_memory) THEN w
    ELSE LET e == Head(w.queue)
             w1 == [w EXCEPT !.queue = Tail(@)]
         IN IF e[2] \in w1.read_set /\ w1.last_access[e[2]] = e[1] /\ e[2] \in w1.write_set
            THEN LET w2 == mem_to_disk(w1, e[2]) IN
                 IF w2.err # Ok THEN w2
                 ELSE release([w2 EXCEPT !.write_set = @ \ {e[2]}], e)
            ELSE evict_dirty_only(w1)

\* read_op, lines 43-68: the eviction loop
RECURSIVE evict(_)
evict(w) ==
    IF w.queue = <<>> \/ ~(Cardinality(w.read_set) > max_segments_in_memory) THEN w
    ELSE LET e == Head(w.queue)
             count == e[1]
             seg == e[2]
             w1 == [w EXCEPT !.queue = Tail(@)]
         IN IF seg \in w1.read_set
            THEN IF w1.last_access[seg] = count
                 THEN IF seg \in w1.write_set
                      THEN LET w2 == mem_to_disk(w1, seg) IN
                           IF w2.err # Ok
                           THEN [w2 EXCEPT !.log[Len(w2.log)].refused = Append(@, e)]
                           ELSE IF ~w2.segs[seg].disk_synced
                           THEN evict(add_to_queue(w2, seg))
                           ELSE release([w2 EXCEPT !.write_set = @ \ {seg}], e)
                      ELSE release(w1, e)
                 ELSE evict(w1)
            ELSE evict(w1)

\* read_op, history: the access starts (w is the state after add_to_queue)
read_op_begin(w, h) ==
    [w EXCEPT !.log = Append(@, [seg |-> h,
                                 resident |-> w.read_set,
                                 last_access |-> w.last_access,
                                 dirty |-> w.write_set,
                                 evicted |-> <<>>,
                                 released |-> <<>>,
                                 refused |-> <<>>,
                                 raised |-> FALSE,
                                 queue_after |-> <<>>,
                                 read_after |-> {},
                                 write_after |-> {},
                                 keys_after |-> {}])]

\* read_op, history: the access returns or raises
read_op_end(w) ==
    [w EXCEPT !.log[Len(w.log)].raised = (w.err # Ok),
              !.log[Len(w.log)].queue_after = w.queue,
              !.log[Len(w.log)].read_after = w.read_set,
              !.log[Len(w.log)].write_after = w.write_set,
              !.log[Len(w.log)].keys_after = DOMAIN w.last_access]

\* the test of line 39, comparing the number of dirty segments with the capacity
read_op_release_counts_dirty(w) ==
    IF Cardinality(w.write_set) > max_segments_in_memory THEN evict(w) ELSE w

\* read_op, lines 39-68: release memory if the cache is full
read_op_release(w) ==
    IF Cardinality(w.read_set) >= max_segments_in_memory THEN evict(w) ELSE w

read_op(w, h) == read_op_end(read_op_release(read_op_begin(add_to_queue(w, h), h)))

write_op(w, h) == read_op([w EXCEPT !.write_set = @ \cup {h}], h)

(***************************************************************************)
(* segment.py                                                              *)
(***************************************************************************)
NewHandle(w) == Len(w.segs) + 1

\* Segment.__init__, data = (start, end, size): a segment known from the register
Segment_from_disk(w, id, start, end, size) ==
    [w EXCEPT !.segs = Append(@, [id |-> id, start |-> start, end |-> end, size |-> size,
                                  t |-> NoneT, x |-> NoneX,
                                  disk_synced |-> TRUE, mem_synced |-> FALSE])]

\* Segment.__init__, data = (t, x) with t an array (a slice taken by split)
Segment_from_arrays(w, id, t, x) ==
    IF t = NoneT THEN [w EXCEPT !.err = "TypeError"]
    ELSE IF Len(t) = 0 THEN [w EXCEPT !.err = "IndexError"]
    ELSE write_op([w EXCEPT !.segs = Append(@, [id |-> id, start |-> t[1], end |-> t[Len(t)],
                                                size |-> Len(t), t |-> t, x |-> x,
                                                disk_synced |-> FALSE, mem_synced |-> TRUE])],
                  NewHandle(w))

\* Segment.__init__, data = (t, x) with t a single timestamp
Segment_from_point(w, id, t, x) ==
    write_op([w EXCEPT !.segs = Append(@, [id |-> id, start |-> t, end |-> t, size |-> 1,
                                            t |-> <<t>>, x |-> <<x>>,
                                            disk_synced |-> FALSE, mem_synced |-> TRUE])],
             NewHandle(w))

\* Segment.memory_consumption: t.nbytes + x.nbytes, 8 bytes per item
memory_consumption(s) ==
    IF s.x # NoneX THEN Len(s.t) * 8 + Len(s.x) * Len(Fields) * 8 ELSE 0

\* Segment.disk_to_mem
disk_to_mem(w, h) ==
    LET s == w.segs[h] IN
    IF ~s.mem_synced
    THEN IF s.id \notin DOMAIN w.files THEN [w EXCEPT !.err = "FileNotFoundError"]
         ELSE LET data == w.files[s.id] IN
              read_op([w EXCEPT !.segs[h].t = data.t,
                                !.segs[h].x = data.x,
                                !.segs[h].start = data.t[1],
                                !.segs[h].end = data.t[Len(data.t)],
                                !.segs[h].size = Len(data.t),
                                !.segs[h].mem_synced = TRUE,
                                !.segs[h].disk_synced = TRUE], h)
    ELSE read_op(w, h)

\* Segment.get after self.disk_to_mem(); the result is [w, t, x]
Segment_get_loaded(w1, h, t, find) ==
    LET s == w1.segs[h]
        fail(e) == [w |-> [w1 EXCEPT !.err = e], t |-> None, x |-> <<>>]
    IN IF w1.err # Ok THEN fail(w1.err)
       ELSE IF s.t = NoneT THEN fail("TypeError")
       ELSE LET i0 == searchsorted_left(s.t, t)
                i == IF find = "before" /\ (i0 = Len(s.t) \/ s.t[i0 + 1] # t) THEN i0 - 1 ELSE i0
            IN IF find = "before" /\ i = -1 THEN fail("ValueError")
               ELSE IF find = "after" /\ i >= Len(s.t) THEN fail("ValueError")
               ELSE IF find = "exact" /\ i >= Len(s.t) THEN fail("IndexError")
               ELSE IF find = "exact" /\ s.t[i + 1] # t THEN fail("ValueError")
               ELSE IF i >= Len(s.t) THEN fail("IndexError")
               ELSE [w |-> w1, t |-> s.t[i + 1], x |-> s.x[i + 1]]

Segment_get(w, h, t, find) == Segment_get_loaded(disk_to_mem(w, h), h, t, find)

\* Segment.get_range after self.disk_to_mem(); the result is [w, t, x]
Segment_get_range_loaded(w1, h, start, end) ==
    LET s == w1.segs[h]
        fail(e) == [w |-> [w1 EXCEPT !.err = e], t |-> <<>>, x |-> <<>>]
    IN IF w1.err # Ok THEN fail(w1.err)
       ELSE IF s.t = NoneT THEN fail("TypeError")
       ELSE LET i0 == searchsorted_left(s.t, start)
                i1 == searchsorted_right(s.t, end)
            IN [w |-> w1, t |-> Slice(s.t, i0, i1), x |-> Slice(s.x, i0, i1)]

Segment_get_range(w, h, start, end) ==
    Segment_get_range_loaded(disk_to_mem(w, h), h, start, end)

\* Segment.insert, the mutating branches: the assignments, then write_op
Segment_store(w, h, t, x, start, end, size) ==
    write_op([w EXCEPT !.segs[h].t = t, !.segs[h].x = x,
                       !.segs[h].start = start, !.segs[h].end = end,
                       !.segs[h].size = size, !.segs[h].disk_synced = FALSE], h)

\* Segment.insert after self.disk_to_mem()
Segment_insert_loaded(w1, h, t, x, conflict) ==
    LET s == w1.segs[h]
    IN IF w1.err # Ok THEN w1
       ELSE IF s.t = NoneT THEN [w1 EXCEPT !.err = "TypeError"]
       ELSE IF t < s.start
       THEN Segment_store(w1, h, np_insert(s.t, 0, t), np_insert(s.x, 0, x), t, s.end, s.size + 1)
       ELSE IF t > s.end
       THEN Segment_store(w1, h, Append(s.t, t), Append(s.x, x), s.start, t, s.size + 1)
       ELSE LET i == searchsorted_left(s.t, t) IN
            IF i >= Len(s.t) THEN [w1 EXCEPT !.err = "IndexError"]
            ELSE IF s.t[i + 1] > t
            THEN Segment_store(w1, h, np_insert(s.t, i, t), np_insert(s.x, i, x),
                               s.start, s.end, s.size + 1)
            ELSE IF conflict = "keep both"
            THEN Segment_store(w1, h, np_insert(s.t, i, t), np_insert(s.x, i, x),
                               s.start, s.end, s.size + 1)
            ELSE IF conflict = "replace"
            THEN Segment_store(w1, h, s.t, [s.x EXCEPT ![i + 1] = x], s.start, s.end, s.size)
            ELSE IF conflict = "skip" THEN w1
            ELSE [w1 EXCEPT !.err = "ValueError"]

Segment_insert(w, h, t, x, conflict) ==
    Segment_insert_loaded(disk_to_mem(w, h), h, t, x, conflict)

\* Segment.delete
Segment_delete(w, h) ==
    write_op([w EXCEPT !.segs[h].start = None, !.segs[h].end = None, !.segs[h].size = 0,
                       !.segs[h].t = <<>>, !.segs[h].x = <<>>,
                       !.segs[h].mem_synced = TRUE, !.segs[h].disk_synced = FALSE], h)

\* np.linspace(0, size, n + 1, dtype=int)[i]
linspace(size, n, i) == (i * size) \div n

\* Segment.split, the loop over new_ids from position i (0-based); the result is [w, new]
RECURSIVE split_loop(_, _, _, _, _)
split_loop(w, h, new_ids, i, new) ==
    IF w.err # Ok \/ i = Len(new_ids) THEN [w |-> w, new |-> new]
    ELSE LET s == w.segs[h]
             i0 == linspace(s.size, Len(new_ids), i)
             i1 == linspace(s.size, Len(new_ids), i + 1)
         IN IF s.t = NoneT THEN [w |-> [w EXCEPT !.err = "TypeError"], new |-> new]
            ELSE LET w1 == Segment_from_arrays(w, new_ids[i + 1],
                                               Slice(s.t, i0, i1), Slice(s.x, i0, i1))
                 IN split_loop(w1, h, new_ids, i + 1, Append(new, NewHandle(w)))

\* Segment.split after the loop: self.delete()
Segment_split_delete(r, h) ==
    IF r.w.err # Ok THEN r
    ELSE [w |-> [Segment_delete(r.w, h) EXCEPT !.splits[Len(r.w.splits)].new = r.new],
          new |-> r.new]

\* history: split is called on the loaded segment h with new_ids
Splitting(w1, h, new_ids) ==
    [w1 EXCEPT !.splits = Append(@, [h |-> h, t |-> w1.segs[h].t, x |-> w1.segs[h].x,
                                     ids |-> new_ids, new |-> <<>>])]

\* Segment.split after self.disk_to_mem()
Segment_split_loaded(w1, h, new_ids) ==
    IF w1.err # Ok THEN [w |-> w1, new |-> <<>>]
    ELSE Segment_split_delete(split_loop(Splitting(w1, h, new_ids), h, new_ids, 0, <<>>), h)

\* Segment.split; the result is [w, new]
Segment_split(w, h, new_ids) == Segment_split_loaded(disk_to_mem(w, h), h, new_ids)

\* Segment.__lt__
Segment_lt(a, b) == a.end <= b.start

(***************************************************************************)
(* list.sort() / sorted() of CPython on a list of fewer than 64 elements:  *)
(* count_run finds the leading run (reversing a strictly descending one),  *)
(* binarysort inserts the remaining elements.  a is a sequence of handles, *)
(* compared with Segment.__lt__.                                           *)
(***************************************************************************)
lt(sg, a, b) == Segment_lt(sg[a], sg[b])

RECURSIVE count_run(_, _, _, _)
count_run(sg, a, k, descending) ==
    IF k > Len(a) THEN k - 1
    ELSE IF descending = lt(sg, a[k], a[k - 1]) THEN count_run(sg, a, k + 1, descending)
    ELSE k - 1

Reverse(a) == [k \in 1 .. Len(a) |-> a[Len(a) + 1 - k]]

RECURSIVE binary_pos(_, _, _, _, _)
binary_pos(sg, a, pivot, l, r) ==
    IF l >= r THEN l
    ELSE LET p == l + ((r - l) \div 2) IN
         IF lt(sg, pivot, a[p + 1]) THEN binary_pos(sg, a, pivot, l, p)
         ELSE binary_pos(sg, a, pivot, p + 1, r)

RECURSIVE binarysort(_, _, _)
binarysort(sg, a, start) ==
    IF start >= Len(a) THEN a
    ELSE LET pivot == a[start + 1]
             l == binary_pos(sg, a, pivot, 0, start)
         IN binarysort(sg, Slice(a, 0, l) \o <<pivot>> \o Slice(a, l, start)
                               \o Slice(a, start + 1, Len(a)), start + 1)

sorted(sg, a) ==
    IF Len(a) < 2 THEN a
    ELSE LET descending == lt(sg, a[2], a[1])
             n == count_run(sg, a, 3, descending)
             run == IF descending THEN Reverse(Slice(a, 0, n)) ELSE Slice(a, 0, n)
         IN binarysort(sg, run \o Slice(a, n, Len(a)), n)

(***************************************************************************)
(* series.py                                                               *)
(***************************************************************************)
IdBase == 100000000
n_splits == 2

\* Series.__init__
Series_init(sg, serial, fields, segments) ==
    IF segments # <<>>
    THEN [serial |-> serial, fields |-> fields, segments |-> sorted(sg, segments),
          next_free_id |-> Max({sg[segments[k]].id : k \in 1 .. Len(segments)}) + 1]
    ELSE [serial |-> serial, fields |-> fields, segments |-> <<>>, next_free_id |-> 1]

\* Series._generate_segment_id: the id returned when _next_free_id is n
generate_segment_id(s, n) == s.serial * IdBase + (n + 1) - 1

\* the body of the while loop with the window lo .. hi narrowed to mid from the
\* left when t is after the middle segment
bisect_step_narrow_left(sg, segments, t, lo, hi) ==
    LET mid == (lo + hi) \div 2
        mid_seg == sg[segments[mid + 1]]
    IN IF t < mid_seg.start THEN [found |-> -1, lo |-> lo, hi |-> mid]
       ELSE IF mid_seg.start <= t /\ t <= mid_seg.end THEN [found |-> mid, lo |-> lo, hi |-> hi]
       ELSE IF t > mid_seg.end THEN [found |-> -1, lo |-> mid, hi |-> hi]
       ELSE [found |-> -1, lo |-> lo, hi |-> hi]

\* Series._bisect_segment_index, one pass through the body of the while loop
\* entered with the window lo .. hi; found is the index returned from inside
\* the loop, or -1
bisect_step(sg, segments, t, lo, hi) ==
    LET mid == (lo + hi) \div 2
        mid_seg == sg[segments[mid + 1]]
    IN IF t < mid_seg.start THEN [found |-> -1, lo |-> lo, hi |-> mid]
       ELSE IF mid_seg.start <= t /\ t <= mid_seg.end THEN [found |-> mid, lo |-> lo, hi |-> hi]
       ELSE IF t > mid_seg.end THEN [found |-> -1, lo |-> lo, hi |-> mid]
       ELSE [found |-> -1, lo |-> lo, hi |-> hi]

\* Series._bisect_segment_index: the window after at most k passes through the
\* loop that starts with lo = 0 and hi = len(self.segments) - 1
RECURSIVE bisect_window(_, _, _, _)
bisect_window(sg, segments, t, k) ==
    IF k = 0 THEN [found |-> -1, lo |-> 0, hi |-> Len(segments) - 1]
    ELSE LET r == bisect_window(sg, segments, t, k - 1) IN
         IF r.found # -1 \/ ~(r.hi - r.lo >= 1) THEN r
         ELSE bisect_step(sg, segments, t, r.lo, r.hi)

\* Series._bisect_segment_index, the while loop; the result is [found, lo, hi]
RECURSIVE bisect_loop(_, _, _, _, _)
bisect_loop(sg, segments, t, lo, hi) ==
    IF ~(hi - lo >= 1) THEN [found |-> -1, lo |-> lo, hi |-> hi]
    ELSE LET mid == (lo + hi) \div 2
             mid_seg == sg[segments[mid + 1]]
         IN IF t < mid_seg.start THEN bisect_loop(sg, segments, t, lo, mid)
            ELSE IF mid_seg.start <= t /\ t <= mid_seg.end
            THEN [found |-> mid, lo |-> lo, hi |-> hi]
            ELSE IF t > mid_seg.end THEN bisect_loop(sg, segments, t, lo, mid)
            ELSE bisect_loop(sg, segments, t, lo, hi)

\* Series._bisect_segment_index: a 0-based index, or -1 when it raises ValueError
bisect_segment_index(sg, segments, t, find) ==
    LET first == sg[segments[1]]
        final == sg[segments[Len(segments)]]
        n == Len(segments)
    IN IF t < first.start
       THEN IF find = "None" \/ find = "after" THEN 0 ELSE -1
       ELSE IF first.start <= t /\ t <= first.end THEN 0
       ELSE IF final.start <= t /\ t <= final.end THEN n - 1
       ELSE IF t > final.end
       THEN IF find = "None" \/ find = "before" THEN n - 1 ELSE -1
       ELSE LET r == bisect_loop(sg, segments, t, 0, n - 1) IN
            IF r.found # -1 THEN r.found
            ELSE IF find = "None" \/ find = "after" THEN r.hi
            ELSE IF find = "before" THEN r.lo
            ELSE -1

\* Series.get (all fields); the result is [w, t, x]
Series_get(w, s, t, when) ==
    IF s.segments = <<>> THEN [w |-> [w EXCEPT !.err = "IndexError"], t |-> None, x |-> <<>>]
    ELSE LET ind == bisect_segment_index(w.segs, s.segments, t, when) IN
         IF ind = -1 THEN [w |-> [w EXCEPT !.err = "ValueError"], t |-> None, x |-> <<>>]
         ELSE Segment_get(w, s.segments[ind + 1], t, when)

\* Series.get_all, the loop over the segments from position i (0-based); the result is [w, t, x]
RECURSIVE get_all_loop(_, _, _, _, _)
RECURSIVE get_all_append(_, _, _, _, _)
get_all_loop(w, segments, i, all_t, all_x) ==
    IF w.err # Ok \/ i = Len(segments) THEN [w |-> w, t |-> all_t, x |-> all_x]
    ELSE LET seg == w.segs[segments[i + 1]]
         IN get_all_append(Segment_get_range(w, segments[i + 1], seg.start, seg.end),
                           segments, i, all_t, all_x)

\* Series.get_all, the loop body after segment.get_range: r is what it returned
get_all_append(r, segments, i, all_t, all_x) ==
    get_all_loop(r.w, segments, i + 1, all_t \o r.t, all_x \o r.x)

\* Series.get_all after the loop: np.concatenate raises on an empty list
get_all_concatenate(r, s) ==
    IF r.w.err # Ok THEN [w |-> r.w, t |-> <<>>, x |-> <<>>]
    ELSE IF s.segments = <<>>
    THEN [w |-> [r.w EXCEPT !.err = "ValueError"], t |-> <<>>, x |-> <<>>]
    ELSE r

\* np.searchsorted(a, v, side) as numpy computes it, by bisection between lo and hi
RECURSIVE np_searchsorted(_, _, _, _, _)
np_searchsorted(a, v, side, lo, hi) ==
    IF lo >= hi THEN lo
    ELSE IF (side = "left" /\ a[lo + (hi - lo) \div 2 + 1] < v)
            \/ (side = "right" /\ a[lo + (hi - lo) \div 2 + 1] <= v)
    THEN np_searchsorted(a, v, side, lo + (hi - lo) \div 2 + 1, hi)
    ELSE np_searchsorted(a, v, side, lo, lo + (hi - lo) \div 2)

\* Series.get_range, line 62: [[s.start, s.end] for s in self.segments], flattened
range_bounds(sg, segments) ==
    [k \in 1 .. 2 * Len(segments) |->
        IF k % 2 = 1 THEN sg[segments[(k + 1) \div 2]].start ELSE sg[segments[k \div 2]].end]

\* int(n / 2)
half(n) == IF n >= 0 THEN n \div 2 ELSE 0 - ((0 - n) \div 2)

\* Series.get_range, lines 66-69: the loop for i in range(i, i1 + 1)
RECURSIVE get_range_loop(_, _, _, _, _, _, _, _)
get_range_loop(w, segments, start, end, i, i1, ts, xs) ==
    IF w.err # Ok THEN [w |-> w, t |-> <<>>, x |-> <<>>]
    ELSE IF i > i1 THEN [w |-> w, t |-> ts, x |-> xs]
    ELSE LET r == Segment_get_range(w, segments[i + 1], start, end)
         IN get_range_loop(r.w, segments, start, end, i + 1, i1, ts \o r.t, xs \o r.x)

\* Series.get_range, lines 62-70: the segments between the bounds
get_range_between(w, s, start, end, i0, i1) ==
    IF i0 > i1 THEN [w |-> [w EXCEPT !.err = "ValueError"], t |-> <<>>, x |-> <<>>]
    ELSE get_range_loop(w, s.segments, start, end, i0, i1, <<>>, <<>>)

\* Series.get_range without the test of lines 59-60
Series_get_range_unguarded(w, s, start, end) ==
    IF s.segments = <<>> THEN [w |-> [w EXCEPT !.err = "IndexError"], t |-> <<>>, x |-> <<>>]
    ELSE get_range_between(
             w, s, start, end,
             half(np_searchsorted(range_bounds(w.segs, s.segments), start, "left",
                                  0, 2 * Len(s.segments))),
             half(np_searchsorted(range_bounds(w.segs, s.segments), end, "right",
                                  0, 2 * Len(s.segments)) - 1))

\* Series.get_range (all fields)
Series_get_range(w, s, start, end) ==
    IF s.segments = <<>> THEN [w |-> [w EXCEPT !.err = "IndexError"], t |-> <<>>, x |-> <<>>]
    ELSE IF start > w.segs[s.segments[Len(s.segments)]].end
            \/ end < w.segs[s.segments[1]].start
    THEN [w |-> w, t |-> <<>>, x |-> <<>>]
    ELSE get_range_between(
             w, s, start, end,
             half(np_searchsorted(range_bounds(w.segs, s.segments), start, "left",
                                  0, 2 * Len(s.segments))),
             half(np_searchsorted(range_bounds(w.segs, s.segments), end, "right",
                                  0, 2 * Len(s.segments)) - 1))

\* Series.get_all (all fields)
Series_get_all(w, s) == get_all_concatenate(get_all_loop(w, s.segments, 0, <<>>, <<>>), s)

\* Series.insert, line 94: the first segment (w1 is the state after Segment(...);
\* s1 has the id counter advanced, h is the new segment)
Series_insert_first(w1, s1, h) ==
    IF w1.err # Ok THEN [w |-> w1, s |-> s1]
    ELSE [w |-> w1, s |-> [s1 EXCEPT !.segments = <<h>>]]

Series_insert_replace_keeps_parent(r, s1, ind) ==
    IF r.w.err # Ok THEN [w |-> r.w, s |-> s1]
    ELSE [w |-> r.w,
          s |-> [s1 EXCEPT !.segments = Slice(@, 0, ind) \o r.new \o Slice(@, ind, Len(@))]]

\* Series.insert, line 102: the slices replace the segment (r is what split returned)
Series_insert_replace(r, s1, ind) ==
    IF r.w.err # Ok THEN [w |-> r.w, s |-> s1]
    ELSE [w |-> r.w,
          s |-> [s1 EXCEPT !.segments = Slice(@, 0, ind) \o r.new \o Slice(@, ind + 1, Len(@))]]

\* Series.insert, lines 98-102 (w1 is the state after segment.insert)
Series_insert_split(w1, s, ind) ==
    LET h == s.segments[ind + 1] IN
    IF w1.err # Ok THEN [w |-> w1, s |-> s]
    ELSE IF memory_consumption(w1.segs[h]) > max_segment_size
    THEN Series_insert_replace(
             Segment_split(w1, h, [k \in 1 .. n_splits |->
                                       generate_segment_id(s, s.next_free_id + k - 1)]),
             [s EXCEPT !.next_free_id = @ + n_splits], ind)
    ELSE [w |-> w1, s |-> s]

\* Series.insert; the result is [w, s]
Series_insert(w, s, t, x, conflict) ==
    IF Len(x) # Len(s.fields) THEN [w |-> [w EXCEPT !.err = "ValueError"], s |-> s]
    ELSE IF s.segments = <<>>
    THEN Series_insert_first(
             Segment_from_point(w, generate_segment_id(s, s.next_free_id), t, x),
             [s EXCEPT !.next_free_id = @ + 1], NewHandle(w))
    ELSE LET ind == bisect_segment_index(w.segs, s.segments, t, "None") IN
         IF ind = -1 THEN [w |-> [w EXCEPT !.err = "ValueError"], s |-> s]
         ELSE Series_insert_split(Segment_insert(w, s.segments[ind + 1], t, x, conflict), s, ind)

(***************************************************************************)
(* memory_manager.commit                                                   *)
(***************************************************************************)
\* sorted(zip(priority, candidates)): the candidates by ascending last access
RECURSIVE by_priority(_, _)
by_priority(la, candidates) ==
    IF candidates = {} THEN <<>>
    ELSE LET c == CHOOSE c \in candidates : \A d \in candidates : la[c] <= la[d]
         IN <<c>> \o by_priority(la, candidates \ {c})

\* commit loop that leaves a committed segment in _write_set
RECURSIVE commit_loop_leaves_dirty(_, _, _, _, _)
commit_loop_leaves_dirty(w, segments, i, n, n_committed) ==
    IF i = Len(segments) THEN [w |-> w, n |-> n_committed]
    ELSE LET h == segments[i + 1]
             w1 == mem_to_disk(w, h)
         IN IF w1.err # Ok THEN [w |-> w1, n |-> n_committed]
            ELSE IF w1.segs[h].disk_synced
            THEN IF n_committed + 1 >= n THEN [w |-> w1, n |-> n_committed + 1]
                 ELSE commit_loop_leaves_dirty(w1, segments, i + 1, n, n_committed + 1)
            ELSE commit_loop_leaves_dirty(w1, segments, i + 1, n, n_committed)

\* commit, the loop over the sorted candidates from position i (0-based); the result is [w, n]
RECURSIVE commit_loop(_, _, _, _, _)
commit_loop(w, segments, i, n, n_committed) ==
    IF i = Len(segments) THEN [w |-> w, n |-> n_committed]
    ELSE LET h == segments[i + 1]
             w1 == mem_to_disk(w, h)
         IN IF w1.err # Ok THEN [w |-> w1, n |-> n_committed]
            ELSE IF w1.segs[h].disk_synced
            THEN LET w2 == [w1 EXCEPT !.write_set = @ \ {h}] IN
                 IF n_committed + 1 >= n THEN [w |-> w2, n |-> n_committed + 1]
                 ELSE commit_loop(w2, segments, i + 1, n, n_committed + 1)
            ELSE commit_loop(w1, segments, i + 1, n, n_committed)

\* commit(n); the result is [w, n]
commit(w, n) == commit_loop(w, by_priority(w.last_access, w.write_set), 0, n, 0)

(***************************************************************************)
(* register.py: record_series and parse_index.  A Python dict is a         *)
(* sequence of [k, v] items in insertion order.                            *)
(***************************************************************************)
NoneFields == <<"None">>     \* fields is None: the series was deleted

Keys(d) == {d[i].k : i \in 1 .. Len(d)}

DictGet(d, key) == d[CHOOSE i \in 1 .. Len(d) : d[i].k = key].v

DictSet(d, key, val) ==
    IF key \in Keys(d)
    THEN [i \in 1 .. Len(d) |-> IF d[i].k = key THEN [k |-> key, v |-> val] ELSE d[i]]
    ELSE Append(d, [k |-> key, v |-> val])

DictPop(d, key) == SelectSeq(d, LAMBDA item : item.k # key)

\* a record_series that leaves the file as it is
record_series_unwritten(w, path, s) == w

\* record_series: the file is opened for appending
record_series(w, path, s) ==
    IF denied THEN [w EXCEPT !.err = "PermissionError"]
    ELSE [w EXCEPT !.register = Append(@, SeriesLine(path, s.serial, s.fields))]

\* what _write_line leaves in the file when the process ends between its writes:
\* the marker alone, the marker and the length, or these and a part of the data
TornParts == {"marker", "length", "data"}

TornLine(part) == [marker |-> "A", torn |-> part]

Torn(line) == "torn" \in DOMAIN line

\* _read_line on a line that is there: the exception it raises, or Ok.
\* struct.unpack of fewer than 8 bytes raises struct.error; pickle.loads raises
\* EOFError on no bytes and UnpicklingError on a pickle that is cut short
read_line(line) ==
    IF ~Torn(line) THEN Ok
    ELSE IF line.torn = "marker" THEN "struct.error"
    ELSE IF line.torn = "length" THEN "EOFError"
    ELSE "UnpicklingError"

\* parse_index, the loop over the lines from line i (at the end of the file
\* _read_line returns None, the unpacking raises TypeError, and the loop ends);
\* the result is [parsed_series_data, parsed_segments_data, err]
RECURSIVE parse_lines(_, _, _, _)
parse_lines(reg, i, psd, pgd) ==
    IF i > Len(reg) THEN [parsed_series_data |-> psd, parsed_segments_data |-> pgd, err |-> Ok]
    ELSE IF read_line(reg[i]) # Ok
    THEN [parsed_series_data |-> psd, parsed_segments_data |-> pgd, err |-> read_line(reg[i])]
    ELSE LET line == reg[i]
             serial == line.id \div IdBase
         IN IF line.marker = "A"
            THEN IF line.fields # NoneFields
                 THEN parse_lines(reg, i + 1,
                                  DictSet(psd, line.serial, [path |-> line.path, fields |-> line.fields]),
                                  pgd)
                 ELSE parse_lines(reg, i + 1, DictPop(psd, line.serial), pgd)
            ELSE IF line.size > 0
                 THEN parse_lines(reg, i + 1, psd,
                          DictSet(pgd, serial,
                                  DictSet(IF serial \in Keys(pgd) THEN DictGet(pgd, serial) ELSE <<>>,
                                          line.id,
                                          [start |-> line.start, end |-> line.end, size |-> line.size])))
                 ELSE IF serial \in Keys(pgd)
                 THEN parse_lines(reg, i + 1, psd,
                                  DictSet(pgd, serial, DictPop(DictGet(pgd, serial), line.id)))
                 ELSE parse_lines(reg, i + 1, psd, pgd)

\* parse_index: [Segment(id, bounds) for id, bounds in ...items()], from item i
RECURSIVE make_segments(_, _, _, _)
make_segments(w, items, i, new) ==
    IF i > Len(items) THEN [w |-> w, new |-> new]
    ELSE make_segments(Segment_from_disk(w, items[i].k, items[i].v.start, items[i].v.end,
                                         items[i].v.size),
                       items, i + 1, Append(new, NewHandle(w)))

\* parse_index, the loop that builds the series from item i; the result is [w, series]
RECURSIVE make_series(_, _, _, _, _)
make_series(w, psd, pgd, i, result) ==
    IF i > Len(psd) THEN [w |-> w, series |-> result]
    ELSE LET serial == psd[i].k
             path == psd[i].v.path
             r == IF serial \in Keys(pgd) THEN make_segments(w, DictGet(pgd, serial), 1, <<>>)
                  ELSE [w |-> w, new |-> <<>>]
             s == Series_init(r.w.segs, serial, psd[i].v.fields, r.new)
         IN make_series(r.w, psd, pgd, i + 1,
                        [q \in (DOMAIN result) \cup {path} |-> IF q = path THEN s ELSE result[q]])

\* parse_index; the result is [w, series]
parse_index(w) ==
    LET parsed == parse_lines(w.register, 1, <<>>, <<>>) IN
    IF parsed.err # Ok THEN [w |-> [w EXCEPT !.err = parsed.err], series |-> <<>>]
    ELSE make_series(w, parsed.parsed_series_data, parsed.parsed_segments_data, 1, <<>>)

(***************************************************************************)
(* decuma.py: delete_series, new_series and defragment_series, as          *)
(* operators on [w, series, next_free_serial]: the memory, the map         *)
(* Decuma.series and Decuma._next_free_serial.                             *)
(***************************************************************************)
\* memory_manager.force_commit_all: while _write_set: commit(1)
RECURSIVE force_commit_all(_)
force_commit_all(w) ==
    IF w.err # Ok \/ w.write_set = {} THEN w
    ELSE force_commit_all(commit(w, 1).w)

\* Series.delete, the loop over the segments from position i (0-based)
RECURSIVE Series_delete_loop(_, _, _)
Series_delete_loop(w, segments, i) ==
    IF w.err # Ok \/ i = Len(segments) THEN w
    ELSE Series_delete_loop(Segment_delete(w, segments[i + 1]), segments, i + 1)

\* Series.delete, after the loop: self.segments = []; self.fields = None
Series_deleted(w, s) ==
    IF w.err # Ok THEN s ELSE [s EXCEPT !.segments = <<>>, !.fields = NoneFields]

\* a delete_series that only unbinds the path
delete_series_unbind(d, path) ==
    IF d.w.err # Ok THEN d
    ELSE [d EXCEPT !.series = [q \in (DOMAIN @) \ {path} |-> @[q]]]

\* delete_series, lines 39-43 (d is the state after Series.delete)
delete_series_record(d, path) ==
    LET w1 == force_commit_all(d.w) IN
    IF d.w.err # Ok THEN d
    ELSE IF w1.err # Ok THEN [d EXCEPT !.w = w1]
    ELSE [d EXCEPT !.w = record_series(w1, path, d.series[path]),
                   !.series = IF denied THEN @
                              ELSE [q \in (DOMAIN @) \ {path} |-> @[q]]]

\* Decuma.delete_series
delete_series(d, path) ==
    IF d.w.err # Ok THEN d
    ELSE IF path \notin DOMAIN d.series THEN [d EXCEPT !.w.err = "KeyError"]
    ELSE delete_series_record(
             [d EXCEPT !.w = Series_delete_loop(d.w, d.series[path].segments, 0),
                       !.series[path] =
                           Series_deleted(Series_delete_loop(d.w, d.series[path].segments, 0), @)],
             path)

\* Decuma.new_series
new_series(d, path, fields) ==
    IF d.w.err # Ok THEN d
    ELSE IF path \in DOMAIN d.series THEN [d EXCEPT !.w.err = "KeyError"]
    ELSE [w |-> record_series(d.w, path, Series_init(d.w.segs, d.next_free_serial, fields, <<>>)),
          series |-> [q \in (DOMAIN d.series) \cup {path} |->
                         IF q = path THEN Series_init(d.w.segs, d.next_free_serial, fields, <<>>)
                         ELSE d.series[q]],
          next_free_serial |-> d.next_free_serial + 1]

\* a move_series that binds the new path and leaves the old one bound
move_series_keeps_old(d, old_path, new_path) ==
    IF d.w.err # Ok THEN d
    ELSE IF old_path = new_path \/ old_path \notin DOMAIN d.series \/ new_path \in DOMAIN d.series
    THEN [d EXCEPT !.w.err = "KeyError"]
    ELSE [d EXCEPT !.series = [q \in (DOMAIN @) \cup {new_path} |->
                                  IF q = new_path THEN @[old_path] ELSE @[q]]]

\* Decuma.move_series
move_series(d, old_path, new_path) ==
    IF d.w.err # Ok THEN d
    ELSE IF old_path = new_path THEN [d EXCEPT !.w.err = "KeyError"]
    ELSE IF old_path \notin DOMAIN d.series THEN [d EXCEPT !.w.err = "KeyError"]
    ELSE IF new_path \in DOMAIN d.series THEN [d EXCEPT !.w.err = "KeyError"]
    ELSE [d EXCEPT !.series = [q \in ((DOMAIN @) \cup {new_path}) \ {old_path} |->
                                  IF q = new_path THEN @[old_path] ELSE @[q]]]

\* np.argsort(t): the orders it can return, every order of equal timestamps
ArgSorts(t) ==
    {o \in Permutations(1 .. Len(t)) : \A i, j \in 1 .. Len(t) : i < j => t[o[i]] <= t[o[j]]}

\* the insert of defragment_series on a series object that the map does not hold
defragment_insert_detached(d, path, r) == [d EXCEPT !.w = r.w]

\* defragment_series, line 55: self.series[path].insert(t[i], x[i])
defragment_insert(d, path, r) == [d EXCEPT !.w = r.w, !.series[path] = r.s]

\* defragment_series, lines 54-55: the loop over order from position k (0-based)
RECURSIVE defragment_loop(_, _, _, _, _, _)
defragment_loop(d, path, t, x, order, k) ==
    IF d.w.err # Ok \/ k = Len(t) THEN d
    ELSE defragment_loop(
             defragment_insert(d, path, Series_insert(d.w, d.series[path], t[order[k + 1]],
                                                      x[order[k + 1]], "keep both")),
             path, t, x, order, k + 1)

\* defragment_series with a loop that starts at the second record
defragment_rebuild_from_second(d, path, g, fields, order) ==
    IF g.w.err # Ok THEN [d EXCEPT !.w = g.w]
    ELSE defragment_loop(new_series(delete_series([d EXCEPT !.w = g.w], path), path, fields),
                         path, g.t, g.x, order, 1)

\* defragment_series, lines 49-55 (g is what get_all returned)
defragment_rebuild(d, path, g, fields, order) ==
    IF g.w.err # Ok THEN [d EXCEPT !.w = g.w]
    ELSE defragment_loop(new_series(delete_series([d EXCEPT !.w = g.w], path), path, fields),
                         path, g.t, g.x, order, 0)

\* Decuma.defragment_series, for the order that np.argsort returns
defragment_series(d, path, order) ==
    IF path \notin DOMAIN d.series THEN [d EXCEPT !.w.err = "KeyError"]
    ELSE IF Len(d.series[path].segments) > 1
    THEN defragment_rebuild(d, path, Series_get_all(d.w, d.series[path]),
                            d.series[path].fields, order)
    ELSE d

\* the orders np.argsort can return in defragment_series
DefragmentOrders(d, path) ==
    IF path \in DOMAIN d.series /\ Len(d.series[path].segments) > 1
    THEN ArgSorts(Series_get_all(d.w, d.series[path]).t)
    ELSE {<<>>}

(***************************************************************************)
(* client.py: FolderHierarchy, and Decuma.toc.  FolderHierarchy.contents   *)
(* is a dict whose values are leaves (a dict of five entries) or           *)
(* FolderHierarchy objects, here [contents |-> dict].                      *)
(***************************************************************************)
IsFolder(v) == "contents" \in DOMAIN v

\* Series.__len__, the sum over the segments from position i
RECURSIVE Series_len(_, _, _)
Series_len(sg, segments, i) ==
    IF i > Len(segments) THEN 0 ELSE sg[segments[i]].size + Series_len(sg, segments, i + 1)

\* the dict that FolderHierarchy._add stores for the series s
Leaf(sg, s) ==
    IF Series_len(sg, s.segments, 1) > 0
    THEN [serial |-> s.serial, fields |-> s.fields, length |-> Series_len(sg, s.segments, 1),
          start |-> sg[s.segments[1]].start, end |-> sg[s.segments[Len(s.segments)]].end]
    ELSE [serial |-> s.serial, fields |-> s.fields, length |-> 0, start |-> None, end |-> None]

\* FolderHierarchy._add on the contents c; the result is [err, contents]
RECURSIVE FolderHierarchy_add(_, _, _)
FolderHierarchy_add_below(c1, path, leaf) ==
    LET r == FolderHierarchy_add(DictGet(c1, path[1]).contents, Tail(path), leaf) IN
    [err |-> r.err, contents |-> DictSet(c1, path[1], [contents |-> r.contents])]

FolderHierarchy_add(c, path, leaf) ==
    IF Len(path) = 1 THEN [err |-> Ok, contents |-> DictSet(c, path[1], leaf)]
    ELSE IF Len(path) = 0 THEN [err |-> "IndexError", contents |-> c]
    ELSE LET c1 == IF path[1] \notin Keys(c) THEN DictSet(c, path[1], [contents |-> <<>>]) ELSE c
         IN IF ~IsFolder(DictGet(c1, path[1])) THEN [err |-> "AttributeError", contents |-> c1]
            ELSE FolderHierarchy_add_below(c1, path, leaf)

\* path == k[:len(path)]
StartsWith(k, path) == Len(path) <= Len(k) /\ path = SubSeq(k, 1, Len(path))

\* Decuma.toc, the loop over self.series.items(), whose keys in order are keys,
\* from item i; the result is [err, contents]
RECURSIVE toc_loop(_, _, _, _, _, _)
toc_loop(sg, map, path, keys, i, r) ==
    IF r.err # Ok \/ i > Len(keys) THEN r
    ELSE IF Len(path) = 0 \/ StartsWith(keys[i], path)
    THEN toc_loop(sg, map, path, keys, i + 1,
                  FolderHierarchy_add(r.contents, SubSeq(keys[i], Len(path) + 1, Len(keys[i])),
                                      Leaf(sg, map[keys[i]])))
    ELSE toc_loop(sg, map, path, keys, i + 1, r)

\* Decuma.toc
toc(sg, map, path, keys) == toc_loop(sg, map, path, keys, 1, [err |-> Ok, contents |-> <<>>])

\* the orders in which a dict with these keys can hold them: any order of insertion
KeyOrders(keys) ==
    {o \in [1 .. Cardinality(keys) -> keys] : \A i, j \in DOMAIN o : i # j => o[i] # o[j]}

(***************************************************************************)
(* The commands.                                                           *)
(***************************************************************************)
World ==
    [segs |-> segs, queue |-> queue, read_set |-> read_set, write_set |-> write_set,
     last_access |-> last_access, counter |-> counter, files |-> files,
     register |-> register, err |-> Ok, log |-> <<>>, splits |-> <<>>]

\* the memory of a process that has just started on the data directory fs, reg
Boot(fs, reg) ==
    [segs |-> <<>>, queue |-> <<>>, read_set |-> {}, write_set |-> {},
     last_access |-> <<>>, counter |-> 0, files |-> fs,
     register |-> reg, err |-> Ok, log |-> <<>>, splits |-> <<>>]

Booted == Boot(files, register)

Store(w) ==
    /\ segs' = w.segs
    /\ queue' = w.queue
    /\ read_set' = w.read_set
    /\ write_set' = w.write_set
    /\ last_access' = w.last_access
    /\ counter' = w.counter
    /\ files' = w.files
    /\ register' = w.register
    /\ accesses' = w.log
    /\ splits' = w.splits
    /\ write_failed' = (write_failed \/ w.err = "PermissionError")

\* process_request: the send_data calls it makes for the command op when the
\* core call ends with err; one frame per call, "0" the acknowledgement, "result"
\* a value.  create_series answers KeyError when the path is bound and then calls
\* new_series all the same, whose KeyError it answers again; where only KeyError
\* is caught, another exception leaves process_request before any send_data
send_data_calls(op, err) ==
    IF op \in {"insert", "get"} THEN IF err = Ok THEN <<IF op = "insert" THEN "0" ELSE "result">>
                                     ELSE <<err>>
    ELSE IF op = "new_series"
    THEN IF err = Ok THEN <<"0">> ELSE IF err = "KeyError" THEN <<"KeyError", "KeyError">> ELSE <<>>
    ELSE IF op \in {"delete_series", "defragment", "move_series", "rename_fields"}
    THEN IF err = Ok THEN <<"0">> ELSE IF err = "KeyError" THEN <<"KeyError">> ELSE <<>>
    ELSE IF op = "toc" THEN IF err = Ok THEN <<"result">> ELSE <<>>
    ELSE IF op = "shutdown" THEN <<"0">>
    ELSE <<>>

\* a command, its arguments, its outcome, and the frames put on the client's queue
Command(op, path, t, x, conflict, err) ==
    [op |-> op, path |-> path, t |-> t, x |-> x, conflict |-> conflict, err |-> err,
     sent |-> send_data_calls(op, err)]

\* what the client receives: the exception or the records
Reply(r) == [err |-> r.w.err, t |-> r.t, x |-> r.x]

\* what get_all returns for every series, were it called now
Contents == [p \in DOMAIN series |-> Reply(Series_get_all(World, series[p]))]

\* the records of a Segment object: its buffers when loaded, else its file
Records(h) ==
    IF segs[h].t # NoneT THEN [t |-> segs[h].t, x |-> segs[h].x]
    ELSE IF segs[h].id \in DOMAIN files THEN files[segs[h].id]
    ELSE [t |-> <<>>, x |-> <<>>]

Held(h) ==
    [h |-> h, id |-> segs[h].id, start |-> segs[h].start, end |-> segs[h].end,
     size |-> segs[h].size, data |-> Records(h)]

\* Series.segments of every series, with what each segment holds
Holdings ==
    [p \in DOMAIN series |-> [i \in 1 .. Len(series[p].segments) |-> Held(series[p].segments[i])]]

Observed(got) ==
    [contents |-> Contents, dirty |-> write_set, got |-> got, clean |-> FALSE,
     owned |-> Holdings, last |-> last, series |-> series, files |-> files]

NotGot == [err |-> "", t |-> None, x |-> <<>>]

\* Series.rename_fields
rename_fields(s, fields) ==
    IF Len(s.fields) # Len(fields) THEN [err |-> "IndexError", s |-> s]
    ELSE [err |-> Ok, s |-> [s EXCEPT !.fields = fields]]

\* the field lists a client sends with rename_fields
Renamings == {<<"w">>, <<"v", "w">>}

\* process_request, the commands whose try has `except KeyError` only: another
\* exception leaves process_request and serve_forever, and the process ends
KeyErrorCaught(err) == err \in {Ok, "KeyError"}

\* Decuma.new_series
NewSeries(p) ==
    /\ up /\ pc = "idle"
    /\ IF p \notin DOMAIN series
       THEN LET s == Series_init(segs, next_free_serial, Fields, <<>>)
                w == record_series(World, p, s)
            IN /\ series' = [q \in (DOMAIN series) \cup {p} |-> IF q = p THEN s ELSE series[q]]
               /\ next_free_serial' = next_free_serial + 1
               /\ Store(w)
               /\ last' = Command("new_series", p, None, <<>>, "", w.err)
       ELSE /\ Store(World)
            /\ last' = Command("new_series", p, None, <<>>, "", "KeyError")
            /\ UNCHANGED <<series, next_free_serial>>
    /\ before' = Observed(NotGot)
    /\ nops' = nops + 1
    /\ up' = KeyErrorCaught(last'.err)
    /\ UNCHANGED <<max_segment_size, max_segments_in_memory, pc, denied, trail>>

\* the 'insert' command: Series.insert of one record
Insert(p, t, x, conflict) ==
    /\ up /\ pc = "idle"
    /\ p \in DOMAIN series
    /\ LET r == Series_insert(World, series[p], t, x, conflict)
       IN /\ series' = [series EXCEPT ![p] = r.s]
          /\ Store(r.w)
          /\ last' = Command("insert", p, t, x, conflict, r.w.err)
    /\ before' = Observed(Reply(Series_get(World, series[p], t, "exact")))
    /\ nops' = nops + 1
    /\ UNCHANGED <<next_free_serial, max_segment_size, max_segments_in_memory, up, pc, denied,
                   trail>>

\* the segments a command has accessed and the segments its accesses have evicted
RECURSIVE Evictions(_)
Evictions(log) ==
    IF log = <<>> THEN <<>>
    ELSE [k \in 1 .. Len(Head(log).evicted) |-> Head(log).evicted[k][2]] \o Evictions(Tail(log))

Trace(t, when, log) ==
    [t |-> t, when |-> when,
     seg |-> [i \in 1 .. Len(log) |-> log[i].seg],
     evicted |-> Evictions(log)]

\* the 'get' command: Series.get of one record, all fields
Get(p, t, when) ==
    /\ up /\ pc = "idle"
    /\ p \in DOMAIN series
    /\ LET r == Series_get(World, series[p], t, when)
       IN /\ Store(r.w)
          /\ last' = Command("get", p, t, r.x, when, r.w.err)
          /\ trail' = Append(trail, Trace(t, when, r.w.log))
    /\ before' = Observed(NotGot)
    /\ nops' = nops + 1
    /\ UNCHANGED <<series, next_free_serial, max_segment_size, max_segments_in_memory,
                   up, pc, denied>>

\* the database as the commands see it
Database == [w |-> World, series |-> series, next_free_serial |-> next_free_serial]

\* the 'defragment' command: Decuma.defragment_series
Defragment(p) ==
    /\ up /\ pc = "idle"
    /\ \E order \in DefragmentOrders(Database, p) :
          LET d == defragment_series(Database, p, order)
          IN /\ Store(d.w)
             /\ series' = d.series
             /\ next_free_serial' = d.next_free_serial
             /\ last' = Command("defragment", p, None, <<>>, "", d.w.err)
    /\ before' = Observed(NotGot)
    /\ nops' = nops + 1
    /\ up' = KeyErrorCaught(last'.err)
    /\ UNCHANGED <<max_segment_size, max_segments_in_memory, pc, denied, trail>>

\* the 'delete_series' command: Decuma.delete_series
DeleteSeries(p) ==
    /\ up /\ pc = "idle"
    /\ LET d == delete_series(Database, p)
       IN /\ Store(d.w)
          /\ series' = d.series
          /\ next_free_serial' = d.next_free_serial
          /\ last' = Command("delete_series", p, None, <<>>, "", d.w.err)
    /\ before' = Observed(NotGot)
    /\ nops' = nops + 1
    /\ up' = KeyErrorCaught(last'.err)
    /\ UNCHANGED <<max_segment_size, max_segments_in_memory, pc, denied, trail>>

\* the 'move_series' command: Decuma.move_series
MoveSeries(old_path, new_path) ==
    /\ up /\ pc = "idle"
    /\ LET d == move_series(Database, old_path, new_path)
       IN /\ Store(d.w)
          /\ series' = d.series
          /\ next_free_serial' = d.next_free_serial
          /\ last' = Command("move_series", old_path, None, <<new_path>>, "", d.w.err)
    /\ before' = Observed(NotGot)
    /\ nops' = nops + 1
    /\ up' = KeyErrorCaught(last'.err)
    /\ UNCHANGED <<max_segment_size, max_segments_in_memory, pc, denied, trail>>

\* the 'rename_fields' command: self.db[path].rename_fields(fields)
RenameFields(p, fields) ==
    /\ up /\ pc = "idle"
    /\ IF p \in DOMAIN series
       THEN /\ series' = [series EXCEPT ![p] = rename_fields(@, fields).s]
            /\ last' = Command("rename_fields", p, None, fields, "", rename_fields(series[p], fields).err)
       ELSE /\ series' = series
            /\ last' = Command("rename_fields", p, None, fields, "", "KeyError")
    /\ Store(World)
    /\ before' = Observed(NotGot)
    /\ nops' = nops + 1
    /\ up' = KeyErrorCaught(last'.err)
    /\ UNCHANGED <<next_free_serial, max_segment_size, max_segments_in_memory, pc, denied, trail>>

\* the 'toc' command: self.send_data(client, self.db.toc(args)), outside any try
Toc(path) ==
    /\ up /\ pc = "idle"
    /\ \E keys \in KeyOrders(DOMAIN series) :
          last' = Command("toc", path, None, toc(segs, series, path, keys).contents, "",
                          toc(segs, series, path, keys).err)
    /\ Store(World)
    /\ up' = (last'.err = Ok)
    /\ before' = Observed(NotGot)
    /\ nops' = nops + 1
    /\ UNCHANGED <<series, next_free_serial, max_segment_size, max_segments_in_memory, pc, denied,
                   trail>>

\* memory_manager.commit(n), called by the owner of the memory manager
Commit(n) ==
    /\ up /\ pc = "idle"
    /\ LET r == commit(World, n) IN
          /\ Store(r.w)
          /\ last' = Command("commit", "", r.n, <<n>>, "", r.w.err)
    /\ before' = Observed(NotGot)
    /\ nops' = nops + 1
    /\ UNCHANGED <<series, next_free_serial, max_segment_size, max_segments_in_memory, up, pc,
                   denied, trail>>

\* the server process is killed: what it held in memory is lost
Kill ==
    /\ up /\ pc = "idle"
    /\ up' = FALSE
    /\ series' = <<>>
    /\ last' = Command("kill", "", None, <<>>, "", Ok)
    /\ before' = Observed(NotGot)
    /\ accesses' = <<>>
    /\ splits' = <<>>
    /\ nops' = nops + 1
    /\ UNCHANGED <<segs, queue, read_set, write_set, last_access, counter, files, register,
                   next_free_serial, max_segment_size, max_segments_in_memory,
                   pc, denied, write_failed, trail>>

\* the server process ends while _write_line appends a record to the register
KillWriting(part) ==
    /\ up /\ pc = "idle"
    /\ up' = FALSE
    /\ series' = <<>>
    /\ register' = Append(register, TornLine(part))
    /\ last' = Command("kill", "", None, <<>>, "", Ok)
    /\ before' = Observed(NotGot)
    /\ accesses' = <<>>
    /\ splits' = <<>>
    /\ nops' = nops + 1
    /\ UNCHANGED <<segs, queue, read_set, write_set, last_access, counter, files,
                   next_free_serial, max_segment_size, max_segments_in_memory,
                   pc, denied, write_failed, trail>>

\* serve_forever, idle tick: memory_manager.commit(10); an exception ends the process
IdleBatch == 10

Idle ==
    /\ up /\ pc = "idle"
    /\ write_set # {}
    /\ LET r == commit(World, IdleBatch) IN
          /\ Store(r.w)
          /\ last' = Command("commit", "", r.n, <<>>, "", r.w.err)
          /\ up' = (r.w.err = Ok)
    /\ before' = Observed(NotGot)
    /\ nops' = nops + 1
    /\ UNCHANGED <<series, next_free_serial, max_segment_size, max_segments_in_memory, pc, denied,
                   trail>>

\* Decuma.shutdown calls force_commit_all
Shutdown ==
    /\ up /\ pc = "idle"
    /\ pc' = "force_commit_all"
    /\ last' = Command("shutdown", "", None, <<>>, "", "running")
    /\ before' = Observed(NotGot)
    /\ accesses' = <<>>
    /\ splits' = <<>>
    /\ nops' = nops + 1
    /\ UNCHANGED <<segs, queue, read_set, write_set, last_access, counter, files, register,
                   series, next_free_serial, max_segment_size, max_segments_in_memory,
                   up, denied, write_failed, trail>>

\* force_commit_all, one iteration of `while _write_set: commit(1)`;
\* an exception leaves Decuma.shutdown and ends the process
CommitOne ==
    /\ pc = "force_commit_all"
    /\ write_set # {}
    /\ LET r == commit(World, 1) IN
          /\ Store(r.w)
          /\ IF r.w.err # Ok
             THEN /\ pc' = "idle"
                  /\ up' = FALSE
                  /\ last' = [last EXCEPT !.err = r.w.err]
             ELSE UNCHANGED <<pc, up, last>>
    /\ UNCHANGED <<series, next_free_serial, max_segment_size, max_segments_in_memory,
                   denied, nops, before, trail>>

\* force_commit_all returns; Decuma.shutdown clears the map and the process ends
ShutdownDone ==
    /\ pc = "force_commit_all"
    /\ write_set = {}
    /\ pc' = "idle"
    /\ up' = FALSE
    /\ series' = <<>>
    /\ last' = [last EXCEPT !.err = Ok]
    /\ before' = [before EXCEPT !.clean = TRUE]
    /\ UNCHANGED <<segs, queue, read_set, write_set, last_access, counter, files, register,
                   next_free_serial, max_segment_size, max_segments_in_memory,
                   denied, write_failed, nops, accesses, splits, trail>>

\* a new process: Decuma.__init__
Restart ==
    /\ ~up /\ pc = "idle"
    /\ LET r == parse_index(Booted) IN
          /\ Store(r.w)
          /\ series' = r.series
          /\ next_free_serial' =
                IF DOMAIN r.series # {}
                THEN Max({r.series[p].serial : p \in DOMAIN r.series})
                ELSE 1
    /\ up' = (parse_index(Booted).w.err = Ok)
    /\ trail' = <<>>
    /\ last' = Command("restart", "", None, <<>>, "", parse_index(Booted).w.err)
    /\ nops' = nops + 1
    /\ UNCHANGED <<max_segment_size, max_segments_in_memory, pc, denied, before>>

\* the operating system starts or stops refusing writes to the data directory
Chmod ==
    /\ pc = "idle"
    /\ denied' = ~denied
    /\ nops' = nops + 1
    /\ UNCHANGED <<segs, queue, read_set, write_set, last_access, counter, files, register,
                   series, next_free_serial, max_segment_size, max_segments_in_memory,
                   up, pc, write_failed, accesses, splits, last, before, trail>>

(***************************************************************************)
(* The specifications.                                                     *)
(***************************************************************************)
\* the first start of the server on an empty data directory
Init ==
    /\ segs = <<>>
    /\ queue = <<>>
    /\ read_set = {}
    /\ write_set = {}
    /\ last_access = <<>>
    /\ counter = 0
    /\ files = <<>>
    /\ register = <<>>
    /\ series = <<>>
    /\ next_free_serial = 1
    /\ max_segment_size = SegmentBytes
    /\ max_segments_in_memory = CacheSegments
    /\ up = TRUE
    /\ pc = "idle"
    /\ denied = FALSE
    /\ write_failed = FALSE
    /\ nops = 0
    /\ accesses = <<>>
    /\ splits = <<>>
    /\ last = Command("init", "", None, <<>>, "", Ok)
    /\ before = [contents |-> <<>>, dirty |-> {}, got |-> NotGot, clean |-> FALSE,
                 owned |-> <<>>, last |-> Command("", "", None, <<>>, "", ""),
                 series |-> <<>>, files |-> <<>>]
    /\ trail = <<>>

\* the row of the next insert: every inserted row is a new one
NewRow == <<nops + 1>>

\* the database: two series, shutdown and restart
Next ==
    \/ /\ nops < MaxOps
       /\ \/ \E p \in Paths : NewSeries(p)
          \/ \E p \in Paths, t \in DbTimes, c \in Conflicts : Insert(p, t, NewRow, c)
          \/ Idle
          \/ Shutdown
          \/ Restart
    \/ CommitOne
    \/ ShutdownDone

Spec == Init /\ [][Next]_vars

\* one series, inserts only
NextSeries ==
    /\ nops < MaxSeriesOps
    /\ \/ NewSeries("a")
       \/ \E t \in Times, c \in Conflicts : Insert("a", t, NewRow, c)

SpecSeries == Init /\ [][NextSeries]_vars

\* the cache: one series, commits, shutdown, and a data directory that may refuse writes
NextCache ==
    \/ /\ nops < MaxCacheOps
       /\ \/ NewSeries("a")
          \/ \E t \in CacheTimes, c \in Conflicts : Insert("a", t, NewRow, c)
          \/ Idle
          \/ Chmod
          \/ Shutdown
    \/ CommitOne
    \/ ShutdownDone

SpecCache == Init /\ [][NextCache]_vars

\* a client that creates a series, inserts the timestamps 1 .. MaxAccessT in
\* ascending order (one record per segment), shuts the server down, restarts
\* it, and then reads: exact get commands on a cache that starts empty
NextAccess ==
    \/ /\ nops = 0
       /\ NewSeries("a")
    \/ /\ nops \in AccessTimes
       /\ Insert("a", nops, NewRow, "keep both")
    \/ /\ nops = MaxAccessT + 1
       /\ Shutdown
    \/ CommitOne
    \/ ShutdownDone
    \/ /\ nops = MaxAccessT + 2
       /\ Restart
    \/ /\ nops > MaxAccessT + 2
       /\ nops < MaxAccessT + 3 + MaxAccessOps
       /\ \E t \in AccessTimes : Get("a", t, "exact")

SpecAccess == Init /\ [][NextAccess]_vars

\* the first start of a server configured with segments of two records
InitRoomy ==
    /\ segs = <<>>
    /\ queue = <<>>
    /\ read_set = {}
    /\ write_set = {}
    /\ last_access = <<>>
    /\ counter = 0
    /\ files = <<>>
    /\ register = <<>>
    /\ series = <<>>
    /\ next_free_serial = 1
    /\ max_segment_size = RoomyBytes
    /\ max_segments_in_memory = CacheSegments
    /\ up = TRUE
    /\ pc = "idle"
    /\ denied = FALSE
    /\ write_failed = FALSE
    /\ nops = 0
    /\ accesses = <<>>
    /\ splits = <<>>
    /\ last = Command("init", "", None, <<>>, "", Ok)
    /\ before = [contents |-> <<>>, dirty |-> {}, got |-> NotGot, clean |-> FALSE,
                 owned |-> <<>>, last |-> Command("", "", None, <<>>, "", ""),
                 series |-> <<>>, files |-> <<>>]
    /\ trail = <<>>

\* one series whose segments hold two records: inserts, shutdown and restart
NextRoomy ==
    \/ /\ nops < MaxRoomyOps
       /\ \/ NewSeries("a")
          \/ \E t \in RoomyTimes, c \in Conflicts : Insert("a", t, NewRow, c)
          \/ Shutdown
          \/ Restart
    \/ CommitOne
    \/ ShutdownDone

SpecRoomy == InitRoomy /\ [][NextRoomy]_vars

\* one series that is filled, duplicates kept, and defragmented
NextDefrag ==
    /\ nops < MaxDefragOps
    /\ \/ NewSeries("a")
       \/ \E t \in DefragTimes : Insert("a", t, NewRow, "keep both")
       \/ Defragment("a")

SpecDefrag == Init /\ [][NextDefrag]_vars

\* the administration of the database: series are created, filled, moved and
\* deleted; the server is shut down or killed, and started again
NextAdmin ==
    \/ /\ nops < MaxAdminOps
       /\ \/ \E p \in Paths : NewSeries(p)
          \/ \E p \in Paths, t \in AdminTimes : Insert(p, t, NewRow, "keep both")
          \/ \E p \in Paths : DeleteSeries(p)
          \/ \E p, q \in Paths : MoveSeries(p, q)
          \/ \E p \in Paths, fields \in Renamings : RenameFields(p, fields)
          \/ Shutdown
          \/ Kill
          \/ \E part \in TornParts : KillWriting(part)
          \/ Restart
    \/ CommitOne
    \/ ShutdownDone

SpecAdmin == Init /\ [][NextAdmin]_vars

\* a client that also sends values of conflict and when that the commands do not know
AnyConflict == Conflicts \cup {"overwrite"}
AnyWhen == Whens \cup {"nearest"}

NextArgs ==
    /\ nops < MaxArgOps
    /\ \/ NewSeries("a")
       \/ \E t \in ArgTimes, c \in AnyConflict : Insert("a", t, NewRow, c)
       \/ \E t \in ArgTimes, when \in AnyWhen : Get("a", t, when)

SpecArgs == Init /\ [][NextArgs]_vars

\* series in folders: the paths are tuples; toc is asked for every prefix
TocPaths == {<<"a">>, <<"a", "b">>, <<"c", "d">>}
Prefixes == {<<>>, <<"a">>, <<"c">>, <<"c", "d">>, <<"e">>}

NextToc ==
    /\ nops < MaxTocOps
    /\ \/ \E p \in TocPaths : NewSeries(p)
       \/ \E p \in TocPaths, t \in TocTimes : Insert(p, t, NewRow, "keep both")
       \/ \E path \in Prefixes : Toc(path)

SpecToc == Init /\ [][NextToc]_vars

\* the memory manager under a series that is filled, with commits of every size
NextCommit ==
    /\ nops < MaxCommitOps
    /\ \/ NewSeries("a")
       \/ \E t \in CommitTimes : Insert("a", t, NewRow, "keep both")
       \/ \E n \in CommitSizes : Commit(n)

SpecCommit == Init /\ [][NextCommit]_vars

\* the sizes of the segment cache that the constructors are tried with
MaxCapacity == 2
MaxSplitT == 3
MaxSplitOps == 4
Capacities == 1 .. MaxCapacity
SplitTimes == 1 .. MaxSplitT

\* Decuma(path, max_segment_size, max_segments_in_memory) on an empty folder,
\* for each size of the segment cache
InitSplit ==
    /\ segs = <<>>
    /\ queue = <<>>
    /\ read_set = {}
    /\ write_set = {}
    /\ last_access = <<>>
    /\ counter = 0
    /\ files = <<>>
    /\ register = <<>>
    /\ series = <<>>
    /\ next_free_serial = 1
    /\ max_segment_size = SegmentBytes
    /\ max_segments_in_memory \in Capacities
    /\ up = TRUE
    /\ pc = "idle"
    /\ denied = FALSE
    /\ write_failed = FALSE
    /\ nops = 0
    /\ accesses = <<>>
    /\ splits = <<>>
    /\ last = Command("init", "", None, <<>>, "", Ok)
    /\ before = [contents |-> <<>>, dirty |-> {}, got |-> NotGot, clean |-> FALSE,
                 owned |-> <<>>, last |-> Command("", "", None, <<>>, "", ""),
                 series |-> <<>>, files |-> <<>>]
    /\ trail = <<>>

\* one series that is inserted into until its segments split
NextSplit ==
    /\ nops < MaxSplitOps
    /\ \/ NewSeries("a")
       \/ \E t \in SplitTimes : Insert("a", t, NewRow, "keep both")

SpecSplit == InitSplit /\ [][NextSplit]_vars

MaxBisectT == 3
MaxBisectOps == 5
BisectTimes == 1 .. MaxBisectT

\* one series of several segments with gaps between them, and searches for the
\* record that follows a timestamp
NextBisect ==
    /\ nops < MaxBisectOps
    /\ \/ NewSeries("a")
       \/ \E t \in BisectTimes : Insert("a", t, NewRow, "keep both")
       \/ \E t \in BisectTimes : Get("a", t, "after")

SpecBisect == Init /\ [][NextBisect]_vars

(***************************************************************************)
(* Observations used by the properties.                                    *)
(***************************************************************************)
\* the Segment objects a series owns, in list order
Owned(p) == [i \in 1 .. Len(series[p].segments) |-> segs[series[p].segments[i]]]

LastInsertDone == last.op = "insert" /\ last.err = Ok

(***************************************************************************)
(* C1: after any sequence of Series.insert calls the segment list of a     *)
(* series is time-ordered and non-overlapping: for every adjacent pair,    *)
(* segments[i].end <= segments[i+1].start.                                 *)
(***************************************************************************)
C1_SegmentsOrdered ==
    \A p \in DOMAIN series :
        \A i \in 1 .. Len(series[p].segments) - 1 :
            Owned(p)[i].end <= Owned(p)[i + 1].start

(***************************************************************************)
(* C2: a shutdown (force_commit_all) followed by a restart that replays    *)
(* the register yields, for every series path, exactly the records         *)
(* get_all returned before the shutdown.                                   *)
(***************************************************************************)
C2_RestartKeepsContents ==
    (last.op = "restart" /\ before.clean) =>
        /\ DOMAIN series = DOMAIN before.contents
        /\ \A p \in DOMAIN series : Contents[p] = before.contents[p]

(***************************************************************************)
(* C3: for every series and every segment it owns, id div 10^8 is the      *)
(* serial of the series, also for segments created after a replay.         *)
(***************************************************************************)
C3_IdEncodesSerial ==
    \A p \in DOMAIN series :
        \A i \in 1 .. Len(series[p].segments) :
            Owned(p)[i].id \div IdBase = series[p].serial

(***************************************************************************)
(* C4: no two series of the path -> series map have the same serial, also *)
(* for series created after the database was initialised by a replay.      *)
(***************************************************************************)
C4_SerialsUnique ==
    \A p, q \in DOMAIN series : p # q => series[p].serial # series[q].serial

(***************************************************************************)
(* C5: no two live segments, of the same series or of different series,    *)
(* have the same id.                                                       *)
(***************************************************************************)
Live == UNION {{series[p].segments[i] : i \in 1 .. Len(series[p].segments)} : p \in DOMAIN series}

C5_SegmentIdsUnique ==
    /\ \A g, h \in Live : g # h => segs[g].id # segs[h].id
    /\ \A p \in DOMAIN series :
           \A i, j \in 1 .. Len(series[p].segments) :
               i # j => series[p].segments[i] # series[p].segments[j]

(***************************************************************************)
(* C6: right after a successful Series.insert(t, x, conflict),             *)
(* Series.get(t, when=exact) succeeds; it returns (t, x) when conflict is  *)
(* keep both or replace, and a record stored at t before the insert when   *)
(* conflict is skip and such a record existed.                             *)
(***************************************************************************)
GetExactNow == Reply(Series_get(World, series[last.path], last.t, "exact"))

StoredBefore(t) ==
    LET c == before.contents[last.path] IN {c.x[k] : k \in {j \in 1 .. Len(c.t) : c.t[j] = t}}

C6_InsertThenGetExact ==
    LastInsertDone =>
        /\ GetExactNow.err = Ok
        /\ GetExactNow.t = last.t
        /\ last.conflict \in {"keep both", "replace"} => GetExactNow.x = last.x
        /\ (last.conflict = "skip" /\ StoredBefore(last.t) # {}) =>
               GetExactNow.x \in StoredBefore(last.t)

\* the cache with the scheduling of the dispatch thread: a loop that can run, runs;
\* the inserts keep duplicates
NextCacheLive ==
    \/ /\ nops < MaxLiveOps
       /\ \/ NewSeries("a")
          \/ \E t \in CacheTimes : Insert("a", t, NewRow, "keep both")
          \/ Idle
          \/ Chmod
          \/ Shutdown
    \/ CommitOne
    \/ ShutdownDone

SpecCacheLive ==
    Init /\ [][NextCacheLive]_vars /\ WF_vars(CommitOne) /\ WF_vars(ShutdownDone)

(***************************************************************************)
(* C7: after every completed read_op or write_op, when segment writes      *)
(* succeed, |dirty_set| <= |resident_set| <= max_segments_in_memory + 1.   *)
(***************************************************************************)
C7_CacheBounded ==
    ~write_failed =>
        /\ Cardinality(write_set) <= Cardinality(read_set)
        /\ Cardinality(read_set) <= max_segments_in_memory + 1
        /\ \A i \in 1 .. Len(accesses) :
               /\ Cardinality(accesses[i].write_after) <= Cardinality(accesses[i].read_after)
               /\ Cardinality(accesses[i].read_after) <= max_segments_in_memory + 1

\* an access that found the cache over capacity has completed, all writes succeeding
C7_Witness ==
    /\ ~write_failed
    /\ \E i \in 1 .. Len(accesses) :
           /\ Cardinality(accesses[i].resident) > max_segments_in_memory
           /\ accesses[i].write_after # {}

(***************************************************************************)
(* C8: between memory manager operations dirty_set is a subset of          *)
(* resident_set and the key set of last_access equals resident_set.        *)
(***************************************************************************)
C8_SetsConsistent ==
    /\ write_set \subseteq read_set
    /\ DOMAIN last_access = read_set
    /\ \A i \in 1 .. Len(accesses) :
           /\ accesses[i].write_after \subseteq accesses[i].read_after
           /\ accesses[i].keys_after = accesses[i].read_after

\* an eviction has happened and a commit has left a clean segment resident
C8_Witness ==
    /\ \E i \in 1 .. Len(accesses) : accesses[i].evicted # <<>>
    /\ read_set # {}
    /\ write_set # read_set

(***************************************************************************)
(* C9: when every segment write succeeds, force_commit_all terminates, and *)
(* on return dirty_set is empty and every segment that was dirty is        *)
(* disk_synced.                                                            *)
(***************************************************************************)
C9_Returned ==
    /\ pc = "idle"
    /\ last.op = "shutdown"
    /\ last.err = Ok
    /\ write_set = {}
    /\ \A h \in before.dirty : segs[h].disk_synced

C9_ForceCommitAll == (pc = "force_commit_all" /\ ~denied) ~> C9_Returned

\* force_commit_all has returned after committing at least two segments
C9_Witness ==
    /\ C9_Returned
    /\ Cardinality(before.dirty) >= 2

(***************************************************************************)
(* C10: an access that leaves resident_set over capacity evicts exactly    *)
(* one segment, the resident segment with the smallest last_access         *)
(* counter, and never on a stale queue entry.                              *)
(***************************************************************************)
EvictsOldest(a) ==
    Cardinality(a.resident) > max_segments_in_memory =>
        /\ Len(a.evicted) = 1
        /\ a.evicted[1][2] \in a.resident
        /\ a.last_access[a.evicted[1][2]] = a.evicted[1][1]
        /\ \A k \in a.resident : a.evicted[1][1] <= a.last_access[k]

C10_EvictsExactlyOldest == \A i \in 1 .. Len(accesses) : EvictsOldest(accesses[i])

\* the same, for the accesses made while no write had ever been refused
C10_WhenWritesSucceed == ~write_failed => C10_EvictsExactlyOldest

(***************************************************************************)
(* C11: with max_segments_in_memory = 2 and a cache that starts empty,      *)
(* after accesses to three distinct segments A, B, C in order, then A       *)
(* again, then a fourth segment D, the access to D evicts B.                *)
(***************************************************************************)
\* the process has served five get commands: the first three and the fifth have
\* each accessed one segment, four distinct segments A, B, C, D, and the fourth
\* repeats the first, the one that accessed A
AccessedABCAD ==
    /\ max_segments_in_memory = 2
    /\ Len(trail) = 5
    /\ \A i \in {1, 2, 3, 5} : Len(trail[i].seg) = 1
    /\ Cardinality({trail[i].seg[1] : i \in {1, 2, 3, 5}}) = 4
    /\ trail[4].t = trail[1].t
    /\ trail[4].when = trail[1].when

C11_AccessToDEvictsB == AccessedABCAD => trail[5].evicted = trail[2].seg

\* C11 as amended: the access to C evicts A, the second access to A (a reload)
\* evicts B, and the access to D evicts C
C11_AccessToDEvictsC ==
    AccessedABCAD =>
        /\ trail[1].evicted = <<>>
        /\ trail[2].evicted = <<>>
        /\ trail[3].evicted = trail[1].seg
        /\ trail[4].seg = trail[1].seg
        /\ trail[4].evicted = trail[2].seg
        /\ trail[5].evicted = trail[3].seg

C11_Witness == AccessedABCAD /\ last.op = "get" /\ last.err = Ok

(***************************************************************************)
(* C12: when a dirty segment is evicted, its records are written to its     *)
(* file before its buffers are released: the file holds the pre-eviction    *)
(* data, and a later disk_to_mem of the segment yields exactly the records, *)
(* start, end and size it had before the eviction.                          *)
(***************************************************************************)
\* the segment of the release r, loaded from the data directory the eviction left
LoadedAgain(r) ==
    disk_to_mem([World EXCEPT !.files = r.files, !.segs[r.h] = r.after], r.h).segs[r.h]

WrittenBack(r) ==
    /\ r.seg.id \in DOMAIN r.files
    /\ r.files[r.seg.id] = [t |-> r.seg.t, x |-> r.seg.x]
    /\ LoadedAgain(r).t = r.seg.t
    /\ LoadedAgain(r).x = r.seg.x
    /\ LoadedAgain(r).start = r.seg.start
    /\ LoadedAgain(r).end = r.seg.end
    /\ LoadedAgain(r).size = r.seg.size

\* the releases of dirty segments by the last command
DirtyReleases ==
    UNION {{accesses[i].released[k] : k \in {j \in 1 .. Len(accesses[i].released) :
                accesses[i].released[j].h \in accesses[i].dirty}}
           : i \in 1 .. Len(accesses)}

C12_DirtyEvictionWritesBack == \A r \in DirtyReleases : WrittenBack(r)

\* C12 as amended: for a dirty segment that holds at least one record
C12_NonEmptyEvictionWritesBack == \A r \in DirtyReleases : r.seg.size > 0 => WrittenBack(r)

C12_Witness == \E r \in DirtyReleases : r.seg.size > 0 /\ r.after.t = NoneT

(***************************************************************************)
(* C13: if mem_to_disk fails with a permission error while a dirty segment  *)
(* is being evicted, the eviction absorbs the failure: the access does not  *)
(* raise, the segment stays in _write_set and _read_set with disk_synced    *)
(* false and its buffers intact, and it is appended to the queue again.     *)
(***************************************************************************)
RefusalAbsorbed(a, e) ==
    /\ ~a.raised
    /\ e[2] \in a.write_after
    /\ e[2] \in a.read_after
    /\ ~segs[e[2]].disk_synced
    /\ segs[e[2]].t # NoneT
    /\ \E k \in 1 .. Len(a.queue_after) :
           a.queue_after[k][2] = e[2] /\ a.queue_after[k][1] >= e[1]

C13_WriteFailureAbsorbed ==
    \A i \in 1 .. Len(accesses) :
        \A k \in 1 .. Len(accesses[i].refused) :
            RefusalAbsorbed(accesses[i], accesses[i].refused[k])

(***************************************************************************)
(* C14: the timestamp buffer of every resident segment is sorted in         *)
(* non-decreasing order, after an insert with any of the three conflict     *)
(* policies, after a split and after a load from disk.                      *)
(***************************************************************************)
NonDecreasing(t) == \A k \in 1 .. Len(t) - 1 : t[k] <= t[k + 1]

C14_BuffersSorted ==
    \A h \in DOMAIN segs : segs[h].t # NoneT => NonDecreasing(segs[h].t)

\* an insert that did not go to the end of a resident buffer of two records
C14_Witness ==
    /\ LastInsertDone
    /\ \E h \in DOMAIN segs :
           /\ segs[h].t # NoneT
           /\ Len(segs[h].t) = 2
           /\ segs[h].x[1] = last.x

(***************************************************************************)
(* C15: an insert that makes a segment exceed max_segment_size triggers     *)
(* exactly one split: the segment is replaced in the list of the series by  *)
(* exactly n_splits segments whose sizes differ by at most one, and no      *)
(* other segment of the series is changed.                                  *)
(***************************************************************************)
\* the segment list after the insert is the one before it, handle by handle,
\* and no segment of it exceeds max_segment_size
NothingExceeds(old, new) ==
    /\ Len(new) = Len(old)
    /\ \A i \in 1 .. Len(new) :
           new[i].h = old[i].h /\ memory_consumption(segs[new[i].h]) <= max_segment_size

\* the insert made the first segment of the series, which does not exceed
FirstSegment(old, new) ==
    /\ old = <<>>
    /\ Len(new) = 1
    /\ memory_consumption(segs[new[1].h]) <= max_segment_size

\* the segment at index ind (counted from 0) was replaced by n_splits segments
SplitAt(old, new, ind) ==
    /\ Len(new) = Len(old) + n_splits - 1
    /\ \A i \in 1 .. ind : new[i] = old[i]
    /\ \A i \in ind + 2 .. Len(old) : new[i + n_splits - 1] = old[i]
    /\ \A i, j \in ind + 1 .. ind + n_splits :
           /\ new[i].h \notin {old[k].h : k \in 1 .. Len(old)}
           /\ new[i].size - new[j].size <= 1
           /\ new[i].size = Len(new[i].data.t)

C15_ExceedingInsertSplitsOnce ==
    LastInsertDone =>
        LET old == before.owned[last.path]
            new == Holdings[last.path]
        IN \/ FirstSegment(old, new)
           \/ NothingExceeds(old, new)
           \/ \E ind \in 0 .. Len(old) - 1 : SplitAt(old, new, ind)

\* an insert has split a segment of a series of several segments in 1 + 2
C15_Witness ==
    /\ LastInsertDone
    /\ Len(before.owned[last.path]) >= 2
    /\ \E ind \in 0 .. Len(before.owned[last.path]) - 1 :
           /\ SplitAt(before.owned[last.path], Holdings[last.path], ind)
           /\ Holdings[last.path][ind + 1].size # Holdings[last.path][ind + 2].size

(***************************************************************************)
(* C16: Segment.split(new_ids), called on a segment that holds at least     *)
(* len(new_ids) records, returns segments whose concatenation, in order, is *)
(* identical to the records of the segment; each returned segment is        *)
(* mem_synced and not disk_synced; and the split segment ends with size 0   *)
(* and start = end = None.                                                  *)
(***************************************************************************)
RECURSIVE Joined(_)
Joined(hs) ==
    IF hs = <<>> THEN [t |-> <<>>, x |-> <<>>]
    ELSE [t |-> Records(Head(hs)).t \o Joined(Tail(hs)).t,
          x |-> Records(Head(hs)).x \o Joined(Tail(hs)).x]

\* the split sp has returned the records of its segment and has emptied it
SplitKeepsRecords(sp) ==
    /\ Len(sp.new) = Len(sp.ids)
    /\ Joined(sp.new) = [t |-> sp.t, x |-> sp.x]
    /\ segs[sp.h].size = 0
    /\ segs[sp.h].start = None
    /\ segs[sp.h].end = None

SplitReturnsUnsaved(sp) ==
    \A k \in 1 .. Len(sp.new) : segs[sp.new[k]].mem_synced /\ ~segs[sp.new[k]].disk_synced

\* the calls of split of the last command that have returned
Returned == {k \in 1 .. Len(splits) : splits[k].new # <<>> /\ Len(splits[k].t) >= Len(splits[k].ids)}

C16_SplitAsDocumented ==
    \A k \in Returned : SplitKeepsRecords(splits[k]) /\ SplitReturnsUnsaved(splits[k])

(***************************************************************************)
(* C17: defragmenting is idempotent on the result of get_all: applying      *)
(* defragment twice yields the same get_all result as applying it once,     *)
(* also when the series holds several records with the same timestamp.      *)
(***************************************************************************)
\* the last two commands were defragment commands on the same series
DefragmentedTwice ==
    /\ last.op = "defragment"
    /\ before.last.op = "defragment"
    /\ before.last.path = last.path
    /\ before.last.err = Ok
    /\ last.path \in DOMAIN before.contents

C17_DefragmentIdempotent ==
    DefragmentedTwice =>
        /\ last.err = Ok
        /\ last.path \in DOMAIN series
        /\ Contents[last.path] = before.contents[last.path]

\* C17 as amended: the second defragment leaves the timestamps and the multiset of
\* the records that get_all returns, and the whole result when no two records
\* have the same timestamp
RecordBag(c) ==
    [r \in {<<c.t[k], c.x[k]>> : k \in 1 .. Len(c.t)} |->
        Cardinality({k \in 1 .. Len(c.t) : <<c.t[k], c.x[k]>> = r})]

Distinct(t) == \A i, j \in 1 .. Len(t) : i # j => t[i] # t[j]

C17_DefragmentIdempotentUpToTies ==
    DefragmentedTwice =>
        /\ last.err = Ok
        /\ last.path \in DOMAIN series
        /\ Contents[last.path].err = before.contents[last.path].err
        /\ Contents[last.path].t = before.contents[last.path].t
        /\ RecordBag(Contents[last.path]) = RecordBag(before.contents[last.path])
        /\ Distinct(Contents[last.path].t) => Contents[last.path] = before.contents[last.path]

\* the second defragment has rebuilt a series of three records, two of them at
\* the same timestamp
C17_Witness ==
    /\ DefragmentedTwice
    /\ last.err = Ok
    /\ Len(before.owned[last.path]) > 1
    /\ Len(Contents[last.path].t) = 3
    /\ ~Distinct(Contents[last.path].t)

(***************************************************************************)
(* C18: defragment on a series of more than one segment leaves the series   *)
(* with the same path, the same fields, the same multiset of (timestamp,    *)
(* row) records, and a get_all result in ascending order of timestamp;      *)
(* defragment on a series of zero or one segment changes nothing.           *)
(***************************************************************************)
Defragmented == last.op = "defragment" /\ last.path \in DOMAIN before.contents

C18_DefragmentKeepsRecords ==
    Defragmented =>
        /\ last.err = Ok
        /\ last.path \in DOMAIN series
        /\ series[last.path].fields = Fields
        /\ IF Len(before.owned[last.path]) > 1
           THEN /\ Contents[last.path].err = Ok
                /\ RecordBag(Contents[last.path]) = RecordBag(before.contents[last.path])
                /\ NonDecreasing(Contents[last.path].t)
           ELSE /\ Holdings[last.path] = before.owned[last.path]
                /\ Contents[last.path] = before.contents[last.path]
                /\ write_set = before.dirty

\* a defragment has rebuilt a series of several segments, with a record that was
\* inserted at a timestamp before the one of an older record
C18_Witness ==
    /\ Defragmented
    /\ last.err = Ok
    /\ Len(before.owned[last.path]) > 1
    /\ Len(Contents[last.path].t) >= 3
    /\ \E i, j \in 1 .. Len(Contents[last.path].t) :
           /\ Contents[last.path].t[i] < Contents[last.path].t[j]
           /\ Contents[last.path].x[i][1] > Contents[last.path].x[j][1]

(***************************************************************************)
(* C19: for any non-empty series, get(t = series.start, when = before)      *)
(* returns the first record of the series and get(t = series.end,           *)
(* when = after) returns the last record of the series, also when several   *)
(* records share the start or the end timestamp.                            *)
(***************************************************************************)
\* Series.start and Series.end
Series_start(p) == segs[series[p].segments[1]].start

Series_end(p) == segs[series[p].segments[Len(series[p].segments)]].end

GetBeforeStart(p) == Reply(Series_get(World, series[p], Series_start(p), "before"))

GetAfterEnd(p) == Reply(Series_get(World, series[p], Series_end(p), "after"))

NonEmpty == {p \in DOMAIN series : series[p].segments # <<>>}

\* the first and the last record of a get_all result
FirstRecord(c) ==
    IF c.t = <<>> THEN [err |-> c.err, t |-> None, x |-> <<>>]
    ELSE [err |-> c.err, t |-> c.t[1], x |-> c.x[1]]

LastRecord(c) ==
    IF c.t = <<>> THEN [err |-> c.err, t |-> None, x |-> <<>>]
    ELSE [err |-> c.err, t |-> c.t[Len(c.t)], x |-> c.x[Len(c.x)]]

C19_GetAtEnds ==
    \A p \in NonEmpty :
        /\ Contents[p].err = Ok
        /\ GetBeforeStart(p) = FirstRecord(Contents[p])
        /\ GetAfterEnd(p) = LastRecord(Contents[p])

\* the number of records of a get_all result that have the timestamp t
CountAt(c, t) == Cardinality({k \in 1 .. Len(c.t) : c.t[k] = t})

\* C19 as amended: get(series.start, before) returns the first record;
\* get(series.end, after) returns a record at series.end, the last record
\* when no other record has that timestamp
C19_GetAtEndsUpToTies ==
    \A p \in NonEmpty :
        /\ Contents[p].err = Ok
        /\ GetBeforeStart(p) = FirstRecord(Contents[p])
        /\ GetAfterEnd(p).err = Ok
        /\ GetAfterEnd(p).t = Series_end(p)
        /\ CountAt(Contents[p], Series_end(p)) = 1 => GetAfterEnd(p) = LastRecord(Contents[p])

\* a series of several segments where two records share the start timestamp
\* and one record has the end timestamp
C19_Witness ==
    \E p \in NonEmpty :
        /\ Len(series[p].segments) >= 2
        /\ CountAt(Contents[p], Series_start(p)) >= 2
        /\ CountAt(Contents[p], Series_end(p)) = 1

(***************************************************************************)
(* C20: Series.get_range(start, end) on a range that lies entirely before   *)
(* the first record or entirely after the last record of the series         *)
(* returns empty arrays and raises no error.                                *)
(***************************************************************************)
\* the timestamps a client may ask for: those of the records, one below, one above
RangeTimes == 0 .. MaxT + 1

\* the ranges that lie entirely before or entirely after the records of c
Outside(c) ==
    {r \in RangeTimes \X RangeTimes :
        /\ r[1] <= r[2]
        /\ \/ \A k \in 1 .. Len(c.t) : r[2] < c.t[k]
           \/ \A k \in 1 .. Len(c.t) : r[1] > c.t[k]}

GetRangeNow(p, r) == Reply(Series_get_range(World, series[p], r[1], r[2]))

C20_RangeOutsideIsEmpty ==
    \A p \in NonEmpty :
        \A r \in Outside(Contents[p]) : GetRangeNow(p, r) = [err |-> Ok, t |-> <<>>, x |-> <<>>]

\* a series of several segments, one of them on disk only, with room for a range
\* before its first record
C20_Witness ==
    \E p \in NonEmpty :
        /\ Len(series[p].segments) >= 2
        /\ \E i \in 1 .. Len(series[p].segments) : segs[series[p].segments[i]].t = NoneT
        /\ \E r \in Outside(Contents[p]) : r[1] >= 1 /\ r[2] <= MaxRoomyT

(***************************************************************************)
(* C21: an insert with conflict keep both of a record whose timestamp is    *)
(* that of records already stored places the new record immediately before  *)
(* them: the series grows by one record, the new one comes right before the *)
(* first record of that timestamp, and the earlier records keep their       *)
(* order.                                                                   *)
(***************************************************************************)
\* the position (from 0) of the first record of c that has the timestamp t
FirstAt(c, t) == Cardinality({k \in 1 .. Len(c.t) : \A j \in 1 .. k : c.t[j] # t})

\* the last command has inserted, with conflict, at a timestamp that was stored
InsertedOnStored(conflict) ==
    /\ LastInsertDone
    /\ last.conflict = conflict
    /\ before.contents[last.path].err = Ok
    /\ StoredBefore(last.t) # {}

C21_KeepBothInsertsBefore ==
    InsertedOnStored("keep both") =>
        Contents[last.path] =
            [err |-> Ok,
             t |-> np_insert(before.contents[last.path].t,
                             FirstAt(before.contents[last.path], last.t), last.t),
             x |-> np_insert(before.contents[last.path].x,
                             FirstAt(before.contents[last.path], last.t), last.x)]

(***************************************************************************)
(* C22: an insert with conflict replace at a timestamp that is stored      *)
(* overwrites one row in place: the series keeps its segments, each with   *)
(* the same start, end, size and timestamps; one stored row of that        *)
(* timestamp becomes the new row; the segment that holds it is dirty       *)
(* (disk_synced false, member of the write set).                           *)
(***************************************************************************)
\* the segment at position k of new is the one of old with one row at t overwritten by x
ReplacedIn(old, new, k, t, x) ==
    /\ Len(new) = Len(old)
    /\ k \in 1 .. Len(old)
    /\ \A i \in 1 .. Len(old) : i # k => new[i] = old[i]
    /\ \E j \in 1 .. Len(old[k].data.t) :
          /\ old[k].data.t[j] = t
          /\ new[k] = [old[k] EXCEPT !.data.x[j] = x]

C22_ReplaceOverwritesInPlace ==
    InsertedOnStored("replace") =>
        \E k \in 1 .. Len(series[last.path].segments) :
            /\ ReplacedIn(before.owned[last.path], Holdings[last.path], k, last.t, last.x)
            /\ series[last.path].segments[k] \in write_set
            /\ ~segs[series[last.path].segments[k]].disk_synced

(***************************************************************************)
(* C23: new_series is persisted eagerly: as soon as it has returned, a     *)
(* replay of the register, with no shutdown and no commit in between,      *)
(* yields a series at the path, with the serial that was allocated and the *)
(* fields that were given.                                                 *)
(***************************************************************************)
\* the map a process started now would build from the register
Replayed == parse_index(Booted).series

NewSeriesDone == last.op = "new_series" /\ last.err = Ok

C23_NewSeriesIsPersisted ==
    NewSeriesDone =>
        /\ last.path \in DOMAIN Replayed
        /\ Replayed[last.path].serial = series[last.path].serial
        /\ Replayed[last.path].fields = Fields

\* a series is created by a process that has replayed the register, next to another one
C23_Witness ==
    /\ NewSeriesDone
    /\ before.last.op = "restart"
    /\ Cardinality(DOMAIN series) = 2

(***************************************************************************)
(* C24: after delete_series(path) has returned, the path is absent from    *)
(* the map, none of the segments the series had is in the write set, and a *)
(* replay of the register yields no series with the serial of the deleted  *)
(* series and constructs no segment that belongs to it.                    *)
(***************************************************************************)
DeleteSeriesDone == last.op = "delete_series" /\ last.err = Ok

\* the serial of the series the last command was called on
DeletedSerial == before.series[last.path].serial

\* the Segment objects that a replay of the register constructs
ReplayedSegments == parse_index(Booted).w.segs

C24_DeleteSeriesIsComplete ==
    DeleteSeriesDone =>
        /\ last.path \notin DOMAIN series
        /\ \A i \in 1 .. Len(before.owned[last.path]) :
               before.owned[last.path][i].h \notin write_set
        /\ \A q \in DOMAIN Replayed : Replayed[q].serial # DeletedSerial
        /\ \A h \in 1 .. Len(ReplayedSegments) : ReplayedSegments[h].id \div IdBase # DeletedSerial

\* a series with a dirty segment and a committed one is deleted
C24_Witness ==
    /\ DeleteSeriesDone
    /\ \E i \in 1 .. Len(before.owned[last.path]) : before.owned[last.path][i].h \in before.dirty
    /\ \E i \in 1 .. Len(before.owned[last.path]) : before.owned[last.path][i].id \in DOMAIN before.files

(***************************************************************************)
(* C25: move_series(old, new) changes the path binding only.  It fails     *)
(* with the map unchanged when the two paths are equal, when old is not    *)
(* bound or when new is bound; otherwise new is bound to the series old    *)
(* was bound to and old is unbound, the other bindings staying.  In every  *)
(* case nothing is appended to the register, and the segments, the files   *)
(* and the memory manager are left as they were.                           *)
(***************************************************************************)
\* move_series(old_path, new_path) is refused in the current state
MoveRefused(old_path, new_path) ==
    \/ old_path = new_path
    \/ old_path \notin DOMAIN series
    \/ new_path \in DOMAIN series

\* the map after a move of old_path to new_path
Moved(old_path, new_path) ==
    [q \in ((DOMAIN series) \cup {new_path}) \ {old_path} |->
        IF q = new_path THEN series[old_path] ELSE series[q]]

MoveSeriesStep ==
    (nops' = nops + 1 /\ last'.op = "move_series") =>
        /\ register' = register
        /\ UNCHANGED <<segs, files, queue, read_set, write_set, next_free_serial>>
        /\ IF MoveRefused(last'.path, last'.x[1])
           THEN last'.err = "KeyError" /\ series' = series
           ELSE last'.err = Ok /\ series' = Moved(last'.path, last'.x[1])

C25_MoveSeriesRebindsOnly == [][MoveSeriesStep]_vars

\* a series that has segments and records in the register has been moved
C25_Witness ==
    /\ last.op = "move_series"
    /\ last.err = Ok
    /\ last.x[1] \in DOMAIN series
    /\ series[last.x[1]].segments # <<>>
    /\ Len(register) > 1

(***************************************************************************)
(* C26: the replay of a register whose last record is cut short (its       *)
(* marker, its length or its data is incomplete) stops at that record      *)
(* without raising, and produces the database that the complete records    *)
(* before it describe.                                                     *)
(***************************************************************************)
TornTail == register # <<>> /\ Torn(register[Len(register)])

\* the map that the records before the last one describe
ReplayedBeforeTail == parse_index(Boot(files, SubSeq(register, 1, Len(register) - 1))).series

C26_ReplayStopsAtTornRecord ==
    (last.op = "restart" /\ TornTail) =>
        /\ last.err = Ok
        /\ up
        /\ series = ReplayedBeforeTail

(***************************************************************************)
(* C27: no error of a command ends the server: whatever the core raises    *)
(* for a command (rename_fields with a field list of another length,       *)
(* delete_series, defragment or move_series on bad arguments, ...),        *)
(* process_request catches it and answers with it, and the server goes on  *)
(* serving.                                                                *)
(***************************************************************************)
\* the commands of the dispatcher that call the core
CoreCommands ==
    {"new_series", "insert", "get", "delete_series", "move_series", "defragment", "rename_fields"}

C27_CommandErrorsAreCaught ==
    (last.op \in CoreCommands /\ last.err # Ok) => up

(***************************************************************************)
(* C28: an insert whose conflict is none of keep both, replace, skip, and  *)
(* a get whose when is none of after, before, exact, fail with an          *)
(* invalid-argument error (ValueError) and change nothing that is stored,  *)
(* whether or not a record with the timestamp exists.                      *)
(***************************************************************************)
\* the last command has left the records, the segments and the write set as they were
NothingChanged ==
    /\ Contents = before.contents
    /\ Holdings = before.owned
    /\ write_set = before.dirty

C28_BadArgumentsAreRefused ==
    /\ (last.op = "insert" /\ last.conflict \notin Conflicts) =>
           (last.err = "ValueError" /\ NothingChanged)
    /\ (last.op = "get" /\ last.conflict \notin Whens) =>
           (last.err = "ValueError" /\ NothingChanged)

(***************************************************************************)
(* C29: for every segment of a running server, in every reachable state,   *)
(* the (start, end, size) of its file equals the (start, end, size) of the *)
(* Segment object if and only if disk_synced is true.  A segment without   *)
(* a file has the file metadata of an empty segment.                       *)
(***************************************************************************)
\* the Segment objects the program can reach: through a series or the memory manager
Reachable == Live \cup read_set \cup write_set

\* (start, end, size) as a file holds them
FileMeta(id) ==
    IF id \in DOMAIN files /\ files[id].t # <<>>
    THEN <<files[id].t[1], files[id].t[Len(files[id].t)], Len(files[id].t)>>
    ELSE <<None, None, 0>>

Meta(s) == <<s.start, s.end, s.size>>

RECURSIVE Leaves(_, _)
Leaves(c, prefix) ==
    UNION {IF IsFolder(c[i].v) THEN Leaves(c[i].v.contents, Append(prefix, c[i].k))
           ELSE {<<Append(prefix, c[i].k), c[i].v>>} : i \in 1 .. Len(c)}

\* the series that toc(path) has to show, each with its path from path
Below(path) ==
    {<<SubSeq(k, Len(path) + 1, Len(k)), Leaf(segs, series[k])>> :
        k \in {q \in DOMAIN series : StartsWith(q, path)}}

C30_TocShowsSeriesBelowPrefix ==
    last.op = "toc" => (last.err = Ok /\ Leaves(last.x, <<>>) = Below(last.path))

(***************************************************************************)
(* C31: for every n >= 0, when the writes succeed, commit(n) writes        *)
(* exactly min(n, |write set|) segments, the ones with the smallest        *)
(* last_access, removes exactly those from the write set, leaves them      *)
(* resident, and returns that number.                                      *)
(***************************************************************************)
Min(a, b) == IF a <= b THEN a ELSE b

\* this step is a commit(n) that has returned k, having written the k oldest dirty segments
CommitWrites(n, k) ==
    /\ last'.t = k
    /\ write_set' \subseteq write_set
    /\ Cardinality(write_set \ write_set') = k
    /\ \A c \in write_set \ write_set', d \in write_set' : last_access[c] < last_access[d]
    /\ \A c \in write_set \ write_set' :
          /\ segs'[c].disk_synced
          /\ segs'[c].size > 0 => (segs'[c].id \in DOMAIN files'
                                   /\ files'[segs'[c].id] = [t |-> segs[c].t, x |-> segs[c].x])
    /\ read_set' = read_set
    /\ \A h \in write_set' : segs'[h] = segs[h]

CommitStep ==
    (nops' = nops + 1 /\ last'.op = "commit" /\ last'.err = Ok) =>
        CommitWrites(last'.x[1], Min(last'.x[1], Cardinality(write_set)))

C31_CommitWritesOldest == [][CommitStep]_vars

(***************************************************************************)
(* C32: for a series of any number of segments, get(t, when=after) returns *)
(* the first record of the series with a timestamp >= t whenever there is  *)
(* one, and get(t, when=before) the last record with a timestamp <= t      *)
(* whenever there is one, also when t lies in a gap between two segments;  *)
(* each fails only when there is no such record.                           *)
(***************************************************************************)
GetNow(p, t, when) == Reply(Series_get(World, series[p], t, when))

\* the positions of a get_all result with a timestamp at or after t, at or before t
AtOrAfter(c, t) == {k \in 1 .. Len(c.t) : c.t[k] >= t}
AtOrBefore(c, t) == {k \in 1 .. Len(c.t) : c.t[k] <= t}

RecordAt(c, k) == [err |-> Ok, t |-> c.t[k], x |-> c.x[k]]

GetFindsNeighbour(p, t) ==
    /\ IF AtOrAfter(Contents[p], t) # {}
       THEN GetNow(p, t, "after") =
                RecordAt(Contents[p], CHOOSE k \in AtOrAfter(Contents[p], t) :
                                          \A j \in AtOrAfter(Contents[p], t) : k <= j)
       ELSE GetNow(p, t, "after").err # Ok
    /\ IF AtOrBefore(Contents[p], t) # {}
       THEN GetNow(p, t, "before") =
                RecordAt(Contents[p], CHOOSE k \in AtOrBefore(Contents[p], t) :
                                          \A j \in AtOrBefore(Contents[p], t) : k >= j)
       ELSE GetNow(p, t, "before").err # Ok

C32_GetAfterAndBefore ==
    \A p \in NonEmpty : Contents[p].err = Ok => \A t \in RangeTimes : GetFindsNeighbour(p, t)

(***************************************************************************)
(* C33: for a non-empty series whose segments do not overlap and any       *)
(* start <= end, get_range(start, end) returns exactly the records with    *)
(* start <= t <= end, in stored order; when the range lies in a gap        *)
(* between two adjacent segments it returns empty arrays and does not      *)
(* fail.                                                                   *)
(***************************************************************************)
NonOverlapping(p) ==
    \A i \in 1 .. Len(series[p].segments) - 1 : Owned(p)[i].end < Owned(p)[i + 1].start

\* the records of a get_all result that lie in the range r, in stored order
RECURSIVE Within(_, _, _)
Within(c, r, k) ==
    IF k > Len(c.t) THEN [err |-> Ok, t |-> <<>>, x |-> <<>>]
    ELSE IF r[1] <= c.t[k] /\ c.t[k] <= r[2]
    THEN [err |-> Ok, t |-> <<c.t[k]>> \o Within(c, r, k + 1).t,
          x |-> <<c.x[k]>> \o Within(c, r, k + 1).x]
    ELSE Within(c, r, k + 1)

Ranges == {r \in RangeTimes \X RangeTimes : r[1] <= r[2]}

C33_GetRangeReturnsRecordsInRange ==
    \A p \in NonEmpty :
        (Contents[p].err = Ok /\ NonOverlapping(p)) =>
            \A r \in Ranges : GetRangeNow(p, r) = Within(Contents[p], r, 1)

(***************************************************************************)
(* C34: every request that the dispatcher processes puts exactly one       *)
(* response on the queue of the client, a value or an error object; in     *)
(* particular create_series on a path that exists gives one error          *)
(* response, not two, and no acknowledgement.                              *)
(***************************************************************************)
\* the requests of the dispatcher that the model issues
Requests == CoreCommands \cup {"toc", "shutdown"}

C34_OneResponsePerRequest ==
    last.op \in Requests => Len(last.sent) = 1

(***************************************************************************)
(* C35: between two operations of the memory manager, every segment of the *)
(* read set has exactly one entry in the queue whose counter is the        *)
(* last_access of the segment; hence the eviction loop, whenever the read  *)
(* set is over capacity, finds a victim before the queue is exhausted, and *)
(* the read set is within capacity after it.                               *)
(***************************************************************************)
\* the positions of the queue that hold the current access of the segment h
CurrentEntries(h) == {i \in 1 .. Len(queue) : queue[i] = <<last_access[h], h>>}

C35_ResidentHasOneCurrentEntry ==
    up => /\ read_set \subseteq DOMAIN last_access
          /\ \A h \in read_set : Cardinality(CurrentEntries(h)) = 1
          /\ Cardinality(read_set) <= max_segments_in_memory

(***************************************************************************)
(* C36: an insert that splits a segment, for each size of the segment cache *)
(***************************************************************************)
\* the last command was an insert that drew the identifiers of a split
SplitInsert ==
    /\ last.op = "insert"
    /\ last.path \in DOMAIN before.series
    /\ before.series[last.path].segments # <<>>
    /\ series[last.path].next_free_id > before.series[last.path].next_free_id

\* every slice of the split segment was taken: split reached its return
SlicesTaken == Len(splits[Len(splits)].new) = Len(splits[Len(splits)].ids)

\* a segment waiting to be written that holds records and is in no series
Orphans == {h \in write_set : h \notin Live /\ segs[h].size > 0}

\* the series of the insert holds what it held plus the inserted record
SplitKeptRecords ==
    /\ Contents[last.path].err = Ok
    /\ RecordBag(Contents[last.path])
           = RecordBag([t |-> Append(before.contents[last.path].t, last.t),
                        x |-> Append(before.contents[last.path].x, last.x)])

\* C36: whatever max_segments_in_memory >= 1 is, an insert that triggers a
\* split completes without error: the split segment's buffers are not
\* released before all its slices are taken, no segment with records that is
\* outside the series is left waiting to be written, and the series then
\* holds its previous records plus the inserted one
C36_SplitInsertCompletes ==
    SplitInsert => /\ last.err = Ok
                   /\ SlicesTaken
                   /\ Orphans = {}
                   /\ SplitKeptRecords

(***************************************************************************)
(* C37: the bisection of the segment list terminates                       *)
(***************************************************************************)
\* the timestamps the search is tried with: those of the commands and the ones
\* on either side of them
Probes == 0 .. MaxBisectT + 1

\* the loop goes on after the window r
Searching(r) == r.found = -1 /\ r.hi - r.lo >= 1

\* the pass from window a to window b returned or left a smaller window inside a
Shrinks(a, b) ==
    b.found # -1 \/ (a.lo <= b.lo /\ b.hi <= a.hi /\ b.hi - b.lo < a.hi - a.lo)

\* the search for t in the segments of the series s: every pass shrinks the
\* window, after len(segments) - 1 passes the loop is over, bisect_loop ends
\* with that window, and the function gives an index or -1 for its ValueError
BisectionEnds(s, t) ==
    LET n == Len(s.segments) IN
    /\ \A k \in 0 .. n - 1 :
           Searching(bisect_window(segs, s.segments, t, k))
               => Shrinks(bisect_window(segs, s.segments, t, k),
                          bisect_window(segs, s.segments, t, k + 1))
    /\ ~Searching(bisect_window(segs, s.segments, t, n - 1))
    /\ bisect_loop(segs, s.segments, t, 0, n - 1) = bisect_window(segs, s.segments, t, n - 1)
    /\ \A find \in {"None", "after", "before"} :
           bisect_segment_index(segs, s.segments, t, find) \in -1 .. n - 1

\* C37: for every non-empty list of segments and every timestamp the window
\* lo .. hi of _bisect_segment_index strictly shrinks on every pass through
\* the loop, so the search returns an index or raises after finitely many passes
C37_BisectionTerminates ==
    \A p \in DOMAIN series :
        series[p].segments # <<>> => \A t \in Probes : BisectionEnds(series[p], t)

\* a get searched a gap between the segments of its series, and the loop
\* passed twice without finding a segment that holds the timestamp
C37_Witness ==
    /\ last.op = "get"
    /\ last.path \in DOMAIN series
    /\ Len(series[last.path].segments) >= 3
    /\ Searching(bisect_window(segs, series[last.path].segments, last.t, 1))
    /\ bisect_window(segs, series[last.path].segments, last.t, 2).found = -1
    /\ last.t > segs[series[last.path].segments[1]].end
    /\ last.t < segs[series[last.path].segments[Len(series[last.path].segments)]].start

====
